---- MODULE Spec2Model ----
(***************************************************************************)
(* Source synchronisation engine of rn-nodecast-tv.                        *)
(*                                                                         *)
(* server/services/syncService.js: the per-source sync orchestrator        *)
(* (syncAll, syncSource, updateSyncStatus), the three sync routines        *)
(* (syncXtream, syncM3u, syncEpg) and the batched writers (saveCategories, *)
(* saveStreams, syncEpgFromUrl) over the sqlite tables categories,         *)
(* playlist_items, epg_programs and sync_status.                           *)
(*                                                                         *)
(* One action of the model is one run of JavaScript between two suspension *)
(* points (an await of an upstream fetch, of the source lookup, or of the  *)
(* setImmediate yield between two write batches).  Every database write    *)
(* and every upstream call may throw; the number of injected faults per    *)
(* behaviour is capped by MaxFaults.  The last_sync timestamp of           *)
(* sync_status is not modelled.                                            *)
(***************************************************************************)
EXTENDS Integers, Sequences, FiniteSets, TLC

VARIABLES
    sourceTable,     \* the configured sources (external store, read only)
    catalog,         \* the revision of the catalog the xtream panel serves
    playlistSize,    \* the number of channels of the M3U playlist (0: M3uParsed)
    streamReq,       \* streamReq[r]: the GET /stream request r of routes/proxy.js
    imageReq,        \* imageReq[r]: the GET /image request r of routes/proxy.js
    readReq,         \* readReq[r]: the read request r of routes/proxy.js
    cache,           \* the response cache: key -> value and expiry
    clock,           \* the time in seconds
    cleared,         \* history: the cache keys invalidated by a DELETE
                     \* /cache/:sourceId and not looked up since
    activeSyncs,     \* syncService.js:8   const activeSyncs = new Set()
    sync_status,     \* table sync_status, one row per source_id (type 'all')
    categories,      \* table categories, keyed by its id column
    playlist_items,  \* table playlist_items, keyed by its id column
    epg_programs,    \* table epg_programs, a list of rows (no unique key)
    exec,            \* exec[c][s]: the syncSource(s) execution called by c
    pass,            \* pass[p]: the syncAll execution p
    faults,          \* number of faults injected so far
    snap,            \* history: rows of s when exec[c][s] acquired the guard
    epgGood,         \* history: what one ingest of the feed of the last complete
                     \* ingest of s writes into an empty table
    favorites,       \* EpgGuide.js:21   this.favorites, a set of keys
    serverFavorites, \* the favorites the server holds (API.favorites)
    toggleReq        \* toggleReq[t]: the toggleFavorite call t of EpgGuide.js

vars == <<sourceTable, catalog, playlistSize, streamReq, imageReq, readReq, cache, clock, cleared, activeSyncs, sync_status, categories, playlist_items,
          epg_programs, exec, pass, faults, snap, epgGood,
          favorites, serverFavorites, toggleReq>>

-----------------------------------------------------------------------------
(* Bounds *)

\* faults (thrown upstream or storage errors) injected in one behaviour
MaxFaults == 2

\* batch size of saveCategories / saveStreams
BATCH_SIZE == 500

NULL == "NULL"

Passes == {"p1"}
Directs == {"d1"}
Callers == Passes \cup Directs

Sources == {1, 2, 3}
\* an id no configured source has
MissingId == Cardinality(Sources) + 1
AllIds == Sources \cup {MissingId}

\* the calls of toggleFavorite
Toggles == {"t1", "t2", "t3"}

\* no call of toggleFavorite
IdleToggle == [pc |-> "idle", key |-> "", wasFavorite |-> FALSE, failed |-> FALSE]

\* the ids direct callers pass to syncSource
DirectIds == {2, 3, MissingId}

\* the order in which sources.getAll() lists the sources
SourceList == <<1, 2, 3>>

StorageMsg == "storage error"
UpstreamMsg == "upstream error"
NotFoundMsg == "Source not found"

-----------------------------------------------------------------------------
(* JavaScript values: every column value is a string; NULL is SQL NULL,    *)
(* UNDEF is JavaScript undefined (bound as NULL by the driver).            *)

UNDEF == "undefined"

Falsy(x) == x \in {"", UNDEF, NULL}

\* a || b
OrElse(a, b) == IF Falsy(a) THEN b ELSE a

\* the value the driver binds for a JavaScript value
Bind(x) == IF x = UNDEF THEN NULL ELSE x

\* item.f, undefined when the record has no field f
Field(item, f) == IF f \in DOMAIN item THEN item[f] ELSE UNDEF

Min(a, b) == IF a < b THEN a ELSE b

-----------------------------------------------------------------------------
(* What the upstream providers answer.  The xtream panel serves revision   *)
(* Revisions[1] of its catalog, later revision 2, in which records changed *)
(* and lists became empty; the XMLTV feed answers one of EpgFeeds.         *)

\* the catalog revisions of the xtream panel
Revisions == {1, 2}

XtreamLiveCategories ==
    << [category_id |-> "1", category_name |-> "News", parent_id |-> "0"] >>

XtreamLiveStreams ==
    << [stream_id |-> "10", name |-> "CNN", category_id |-> "1",
        stream_icon |-> "cnn.png", added |-> "t1"] >>

XtreamVodCategories ==
    << [category_id |-> "1", category_name |-> "Films", parent_id |-> "0"] >>

XtreamVodStreams ==
    << [stream_id |-> "10", name |-> "Heat", category_id |-> "1",
        stream_icon |-> "heat.png", container_extension |-> "mp4",
        rating |-> "8", added |-> "t2", year |-> "1995"],
       [stream_id |-> "11", name |-> "Ronin", category_id |-> "1",
        stream_icon |-> "ronin.png", container_extension |-> "mp4",
        rating |-> "7", added |-> "t2", year |-> "1998"] >>

XtreamSeriesCategories == << >>

\* revision 2 of the catalog: other field values, no movie categories any
\* more and one movie less
XtreamLiveCategories2 ==
    << [category_id |-> "1", category_name |-> "World News", parent_id |-> "7"] >>

XtreamLiveStreams2 ==
    << [stream_id |-> "10", name |-> "CNN Intl", category_id |-> "3",
        stream_icon |-> "cnn2.png", added |-> "t5"] >>

XtreamVodCategories2 == << >>

XtreamVodStreams2 ==
    << [stream_id |-> "10", name |-> "Heat (Remastered)", category_id |-> "4",
        stream_icon |-> "heat2.png", container_extension |-> "mkv",
        rating |-> "7", added |-> "t6", year |-> "1996"] >>

XtreamSeries2 ==
    << [series_id |-> "20", name |-> "Lost S2", category_id |-> "5",
        cover |-> "lost2.png", rating |-> "6", releaseDate |-> "2005",
        last_modified |-> "t7"] >>

XtreamSeries ==
    << [series_id |-> "20", name |-> "Lost", category_id |-> "2",
        cover |-> "lost.png", rating |-> "9", releaseDate |-> "2004",
        last_modified |-> "t3"] >>

M3uParsed ==
    [channels |-> << [id |-> "10", name |-> "BBC", groupTitle |-> "UK",
                      tvgLogo |-> "bbc.png", url |-> "http://u/1"],
                     [id |-> "m2", name |-> "Misc", groupTitle |-> "",
                      tvgLogo |-> "misc.png", url |-> "http://u/2"] >>,
     groups   |-> << [name |-> "UK"] >>]

\* a playlist of n channels, each in a group of its own
BulkPlaylist(n) ==
    [channels |-> [j \in 1..n |->
                      [id |-> ToString(j), name |-> "ch", groupTitle |-> ToString(j),
                       tvgLogo |-> "", url |-> ""]],
     groups   |-> [j \in 1..n |-> [name |-> ToString(j)]]]

\* the playlist sizes of the batch specification
PlaylistSizes == {1, 500, 501, 1200}

FeedA ==
    [channels   |-> << [id |-> "10", name |-> "CNN HD", icon |-> "epg.png"] >>,
     programmes |-> << [channelId |-> "10", start |-> 100, stop |-> 200,
                        title |-> "Morning", description |-> "a"] >>]

FeedB ==
    [channels   |-> << [id |-> "10", name |-> "CNN HD", icon |-> "epg.png"] >>,
     programmes |-> << [channelId |-> "10", start |-> 200, stop |-> 300,
                        title |-> "Noon", description |-> "b"],
                       [channelId |-> "10", start |-> 300, stop |-> 400,
                        title |-> "Evening", description |-> "c"] >>]

EpgFeeds == {FeedA, FeedB}

\* syncM3u: groups mapped to category records
M3uCategories(parsed) ==
    [k \in 1..Len(parsed.groups) |->
        [category_id   |-> parsed.groups[k].name,
         category_name |-> parsed.groups[k].name,
         parent_id     |-> NULL]]

\* syncM3u: channels mapped to stream records
M3uPlaylistItems(parsed) ==
    [k \in 1..Len(parsed.channels) |->
        [stream_id   |-> parsed.channels[k].id,
         name        |-> parsed.channels[k].name,
         category_id |-> OrElse(parsed.channels[k].groupTitle, "Uncategorized"),
         stream_icon |-> parsed.channels[k].tvgLogo,
         stream_url  |-> parsed.channels[k].url]]

-----------------------------------------------------------------------------
(* The steps of a sync routine.  Step k of a routine saves one list with   *)
(* saveCategories or saveStreams; the routine of an xtream source fetches  *)
(* before every step, the routine of an m3u source fetches once.           *)

NumSteps(typ) ==
    CASE typ = "xtream" -> 6
      [] typ = "m3u"    -> 2
      [] OTHER          -> 0

\* "cat": saveCategories, "item": saveStreams
StepKind(typ, k) ==
    IF typ = "m3u" THEN (IF k = 1 THEN "cat" ELSE "item")
    ELSE (IF k \in {1, 3, 5} THEN "cat" ELSE "item")

\* every save call is given the type movie
StepTypeMovie(typ, k) == "movie"

\* the type argument of the save call of step k
StepType(typ, k) ==
    IF typ = "m3u" THEN "live"
    ELSE CASE k \in {1, 2} -> "live"
           [] k \in {3, 4} -> "movie"
           [] OTHER        -> "series"

\* only the first step awaits an upstream call
FetchesFirstOnly(typ, k) == k = 1

\* whether step k awaits an upstream call of its own
StepFetches(typ, k) == typ = "xtream" \/ k = 1

\* whether the routine ends with syncEpgFromUrl
HasEpgStep(typ) == typ \in {"xtream", "epg"}

\* what m3uParser.fetchAndParse answers
M3uAnswer == IF playlistSize = 0 THEN M3uParsed ELSE BulkPlaylist(playlistSize)

\* the list step k saves when the panel serves revision rev
StepDataAt(rev, typ, k) ==
    IF typ = "m3u"
    THEN (IF k = 1 THEN M3uCategories(M3uAnswer) ELSE M3uPlaylistItems(M3uAnswer))
    ELSE IF rev = 1
    THEN CASE k = 1 -> XtreamLiveCategories
           [] k = 2 -> XtreamLiveStreams
           [] k = 3 -> XtreamVodCategories
           [] k = 4 -> XtreamVodStreams
           [] k = 5 -> XtreamSeriesCategories
           [] OTHER -> XtreamSeries
    ELSE CASE k = 1 -> XtreamLiveCategories2
           [] k = 2 -> XtreamLiveStreams2
           [] k = 3 -> XtreamVodCategories2
           [] k = 4 -> XtreamVodStreams2
           [] k = 5 -> XtreamSeriesCategories
           [] OTHER -> XtreamSeries2

\* the list step k saves
StepData(typ, k) == StepDataAt(catalog, typ, k)

-----------------------------------------------------------------------------
(* The writers *)

\* the id column without the source id
CompositeIdNoSource(sourceId, itemId) == itemId

\* the id column: `${sourceId}:${itemId}`
CompositeId(sourceId, itemId) == ToString(sourceId) \o ":" \o itemId

\* the row saveCategories binds for one category
CategoryRow(sourceId, type, cat) ==
    [source_id   |-> sourceId,
     category_id |-> cat.category_id,
     type        |-> type,
     name        |-> Bind(Field(cat, "category_name")),
     parent_id   |-> OrElse(Field(cat, "parent_id"), NULL),
     data        |-> cat]

\* ON CONFLICT(id) DO UPDATE SET name, data: the stored row old after the
\* statement ran with row
CategoryOnConflict(old, row) ==
    [old EXCEPT !.name = row.name, !.data = row.data]

\* the upstream id of an item of the given type
ItemIdOf(type, item) ==
    IF type = "series" THEN Field(item, "series_id") ELSE Field(item, "stream_id")

\* the row saveStreams binds for one item: the field mapping by type
ItemRow(sourceId, type, item) ==
    [source_id   |-> sourceId,
     item_id     |-> ItemIdOf(type, item),
     type        |-> type,
     name        |-> Bind(Field(item, "name")),
     category_id |-> Field(item, "category_id"),
     stream_icon |-> Bind(IF type = "series" THEN Field(item, "cover")
                                             ELSE Field(item, "stream_icon")),
     stream_url  |-> NULL,
     container_extension |-> Bind(IF type = "movie"
                                  THEN Field(item, "container_extension")
                                  ELSE UNDEF),
     rating      |-> Bind(IF type \in {"movie", "series"}
                          THEN Field(item, "rating") ELSE NULL),
     year        |-> Bind(IF type = "series" THEN Field(item, "releaseDate")
                                             ELSE NULL),
     added_at    |-> Bind(IF type = "series" THEN Field(item, "last_modified")
                                             ELSE Field(item, "added")),
     data        |-> item]

\* ON CONFLICT(id) DO UPDATE SET name, category_id, stream_icon,
\* container_extension, data: the stored row old after the statement ran
\* with row
ItemOnConflict(old, row) ==
    [old EXCEPT !.name = row.name,
                !.category_id = row.category_id,
                !.stream_icon = row.stream_icon,
                !.container_extension = row.container_extension,
                !.data = row.data]

\* the row syncEpgFromUrl binds for one XMLTV channel
EpgChannelRow(sourceId, ch) ==
    [source_id   |-> sourceId,
     item_id     |-> ch.id,
     type        |-> "epg_channel",
     name        |-> Bind(Field(ch, "name")),
     category_id |-> NULL,
     stream_icon |-> OrElse(Field(ch, "icon"), NULL),
     stream_url  |-> NULL,
     container_extension |-> NULL,
     rating      |-> NULL,
     year        |-> NULL,
     added_at    |-> NULL,
     data        |-> ch]

\* INSERT INTO playlist_items ... ON CONFLICT(id) DO UPDATE SET name,
\* stream_icon, data
UpsertEpgChannel(tbl, id, row) ==
    IF id \in DOMAIN tbl
    THEN [tbl EXCEPT ![id] = [@ EXCEPT !.name = row.name,
                                       !.stream_icon = row.stream_icon,
                                       !.data = row.data]]
    ELSE tbl @@ (id :> row)

\* the row syncEpgFromUrl binds for one programme
ProgramRow(sourceId, p) ==
    [channel_id  |-> p.channelId,
     source_id   |-> sourceId,
     start_time  |-> IF "start" \in DOMAIN p THEN p.start ELSE 0,
     end_time    |-> IF "stop" \in DOMAIN p THEN p.stop ELSE 0,
     title       |-> Bind(Field(p, "title")),
     description |-> Bind(OrElse(Field(p, "description"), Field(p, "desc")))]

\* the conflict update of the statement of saveCategories ("cat") or of
\* saveStreams ("item")
OnConflict(kind, old, row) ==
    IF kind = "cat" THEN CategoryOnConflict(old, row) ELSE ItemOnConflict(old, row)

\* the table old after the upserts that wrote the rows new into an empty
\* table ran on it: a row with a stored id takes the conflict update
MergeRows(old, new, kind) ==
    [id \in DOMAIN old \cup DOMAIN new |->
        IF id \notin DOMAIN new THEN old[id]
        ELSE IF id \in DOMAIN old THEN OnConflict(kind, old[id], new[id])
        ELSE new[id]]

RECURSIVE CategoryRows(_, _, _, _, _)
\* the rows the statement of saveCategories writes into an empty table when
\* it runs for the records lo..hi of the batch in order
CategoryRows(sourceId, type, batch, lo, hi) ==
    IF lo = hi
    THEN CompositeId(sourceId, batch[lo].category_id)
            :> CategoryRow(sourceId, type, batch[lo])
    ELSE LET mid == (lo + hi) \div 2 IN
         MergeRows(CategoryRows(sourceId, type, batch, lo, mid),
                   CategoryRows(sourceId, type, batch, mid + 1, hi),
                   "cat")

\* one insertBatch transaction of saveCategories
InsertCategoryBatch(tbl, sourceId, type, batch) ==
    IF batch = << >> THEN tbl
    ELSE MergeRows(tbl, CategoryRows(sourceId, type, batch, 1, Len(batch)),
                   "cat")

RECURSIVE ItemRows(_, _, _, _, _)
\* the rows the statement of saveStreams writes into an empty table when it
\* runs for the records lo..hi of the batch in order
ItemRows(sourceId, type, batch, lo, hi) ==
    IF lo = hi
    THEN CompositeId(sourceId, ItemIdOf(type, batch[lo]))
            :> ItemRow(sourceId, type, batch[lo])
    ELSE LET mid == (lo + hi) \div 2 IN
         MergeRows(ItemRows(sourceId, type, batch, lo, mid),
                   ItemRows(sourceId, type, batch, mid + 1, hi),
                   "item")

\* the table is replaced by the rows of the batch
ReplaceItems(tbl, sourceId, type, batch) ==
    IF batch = << >> THEN tbl ELSE ItemRows(sourceId, type, batch, 1, Len(batch))

\* one insertBatch transaction of saveStreams
InsertItemBatch(tbl, sourceId, type, batch) ==
    IF batch = << >> THEN tbl
    ELSE MergeRows(tbl, ItemRows(sourceId, type, batch, 1, Len(batch)),
                   "item")

RECURSIVE InsertChannels(_, _, _)
\* the insertChannels transaction of syncEpgFromUrl
InsertChannels(tbl, sourceId, chanList) ==
    IF chanList = << >> THEN tbl
    ELSE InsertChannels(
             UpsertEpgChannel(tbl, CompositeId(sourceId, Head(chanList).id),
                              EpgChannelRow(sourceId, Head(chanList))),
             sourceId, Tail(chanList))

\* the delete removes nothing
DeleteNothing(progs, sourceId) == progs

\* DELETE FROM epg_programs WHERE source_id = ?
DeletePrograms(progs, sourceId) ==
    SelectSeq(progs, LAMBDA r : r.source_id # sourceId)

\* the insertMany transaction of syncEpgFromUrl
InsertMany(progs, sourceId, programmes) ==
    progs \o [k \in 1..Len(programmes) |-> ProgramRow(sourceId, programmes[k])]

\* the slice runs to the end of the list
SliceToEnd(list, i) == SubSeq(list, i + 1, Len(list))

\* categories.slice(i, i + BATCH_SIZE)
Slice(list, i) == SubSeq(list, i + 1, Min(i + BATCH_SIZE, Len(list)))

\* the stored programmes of one source
ProgramsOf(progs, sourceId) ==
    SelectSeq(progs, LAMBDA r : r.source_id = sourceId)


-----------------------------------------------------------------------------
(* The body of a sync routine between two suspension points.  An effect    *)
(* names the tables as the run leaves them and where the routine is then:  *)
(* cont = "fetch" / "fetchEpg" (awaiting an upstream call), "yield"        *)
(* (awaiting setImmediate after a batch), "return" or "throw".             *)

Effect(cats, items, cont, step, i) ==
    [cats |-> cats, items |-> items, cont |-> cont, step |-> step, i |-> i]

\* the batch written by a plain loop, without a transaction: a write that
\* throws leaves the first record of the batch stored
InsertBatchUnwrapped(cats, items, s, typ, k, i, ok) ==
    LET batch == IF ok THEN Slice(StepData(typ, k), i)
                 ELSE SubSeq(Slice(StepData(typ, k), i), 1, 1)
        cont  == IF ok THEN "yield" ELSE "throw"
        next  == IF ok THEN i + BATCH_SIZE ELSE i
    IN  IF StepKind(typ, k) = "cat"
        THEN Effect(InsertCategoryBatch(cats, s, StepType(typ, k), batch),
                    items, cont, k, next)
        ELSE Effect(cats, InsertItemBatch(items, s, StepType(typ, k), batch),
                    cont, k, next)

\* insertBatch(list.slice(i, i + BATCH_SIZE)) of step k; ok: the transaction
\* commits, otherwise it rolls back and throws
InsertBatch(cats, items, s, typ, k, i, ok) ==
    IF ~ok THEN Effect(cats, items, "throw", k, i)
    ELSE IF StepKind(typ, k) = "cat"
         THEN Effect(InsertCategoryBatch(cats, s, StepType(typ, k),
                                         Slice(StepData(typ, k), i)),
                     items, "yield", k, i + BATCH_SIZE)
         ELSE Effect(cats,
                     InsertItemBatch(items, s, StepType(typ, k),
                                     Slice(StepData(typ, k), i)),
                     "yield", k, i + BATCH_SIZE)

RECURSIVE EnterStep(_, _, _, _, _, _)
RECURSIVE BeginSave(_, _, _, _, _, _)

\* saveCategories / saveStreams of step k, from its first line to its first
\* suspension point
BeginSave(cats, items, s, typ, k, ok) ==
    IF Len(StepData(typ, k)) = 0
    THEN EnterStep(cats, items, s, typ, k + 1, ok)
    ELSE InsertBatch(cats, items, s, typ, k, 0, ok)

\* the routine reaches step k
EnterStep(cats, items, s, typ, k, ok) ==
    IF k > NumSteps(typ)
    THEN Effect(cats, items, IF HasEpgStep(typ) THEN "fetchEpg" ELSE "return", k, 0)
    ELSE IF StepFetches(typ, k)
         THEN Effect(cats, items, "fetch", k, 0)
         ELSE BeginSave(cats, items, s, typ, k, ok)

\* the batch loop of step k resumes after its yield with offset i
AfterYield(cats, items, s, typ, k, i, ok) ==
    IF i < Len(StepData(typ, k))
    THEN InsertBatch(cats, items, s, typ, k, i, ok)
    ELSE EnterStep(cats, items, s, typ, k + 1, ok)

\* syncEpgFromUrl after the feed is parsed: the channel transaction, the
\* delete, the programme transaction; each may throw
IngestEpg(items, progs, s, feed, okCh, okDel, okIns) ==
    IF ~okCh THEN [items |-> items, progs |-> progs, thrown |-> TRUE]
    ELSE LET items1 == InsertChannels(items, s, feed.channels) IN
         IF ~okDel THEN [items |-> items1, progs |-> progs, thrown |-> TRUE]
         ELSE LET progs1 == DeletePrograms(progs, s) IN
              IF ~okIns THEN [items |-> items1, progs |-> progs1, thrown |-> TRUE]
              ELSE [items |-> items1,
                    progs |-> InsertMany(progs1, s, feed.programmes),
                    thrown |-> FALSE]

-----------------------------------------------------------------------------
(* The read API (routes/proxy.js).  Rows written by sync have the default  *)
(* is_hidden = 0; a result list is modelled as the set of its entries; the *)
(* data column holds the upstream record (JSON.stringify / JSON.parse of a *)
(* flat record of strings).                                                *)

\* getCategoriesFromDb(sourceId, type)
GetCategoriesFromDb(cats, sourceId, type) ==
    {[category_id   |-> cats[id].category_id,
      category_name |-> cats[id].name,
      parent_id     |-> cats[id].parent_id] :
        id \in {x \in DOMAIN cats : /\ cats[x].source_id = sourceId
                                    /\ cats[x].type = type}}

\* one entry of getStreamsFromDb: the parsed data column, overridden by the
\* promoted columns
StreamEntry(row, type) ==
    [stream_id   |-> row.item_id,
     series_id   |-> IF type = "series" THEN row.item_id ELSE UNDEF,
     name        |-> row.name,
     stream_icon |-> row.stream_icon,
     cover       |-> row.stream_icon,
     added       |-> row.added_at,
     rating      |-> row.rating,
     container_extension |-> row.container_extension,
     category_id |-> row.category_id] @@ row.data

\* getStreamsFromDb(sourceId, type, categoryId)
GetStreamsFromDb(items, sourceId, type, categoryId) ==
    {StreamEntry(items[id], type) :
        id \in {x \in DOMAIN items :
                   /\ items[x].source_id = sourceId
                   /\ items[x].type = type
                   /\ Falsy(categoryId) \/ items[x].category_id = categoryId}}

\* 24 * 60 * 60 * 1000: the half width of the EPG window in milliseconds
WindowMs == 24 * 60 * 60 * 1000

\* new Date(ms).toISOString(), rendered as the millisecond count
ToISOString(ms) == "T" \o ToString(ms)

\* every programme of the source, whatever the time
AllProgrammes(progs, sourceId, now) ==
    LET programs == SelectSeq(progs, LAMBDA r : r.source_id = sourceId)
    IN  [k \in 1..Len(programs) |->
            [channelId |-> programs[k].channel_id,
             start     |-> ToISOString(programs[k].start_time),
             stop      |-> ToISOString(programs[k].end_time),
             title     |-> programs[k].title,
             desc      |-> programs[k].description]]

\* GET /epg/:sourceId at time now: the programmes of the response
EpgProgrammes(progs, sourceId, now) ==
    LET windowStart == now - WindowMs
        windowEnd   == now + WindowMs
        programs    == SelectSeq(progs, LAMBDA r : /\ r.source_id = sourceId
                                                   /\ r.end_time > windowStart
                                                   /\ r.start_time < windowEnd)
    IN  [k \in 1..Len(programs) |->
            [channelId |-> programs[k].channel_id,
             start     |-> ToISOString(programs[k].start_time),
             stop      |-> ToISOString(programs[k].end_time),
             title     |-> programs[k].title,
             desc      |-> programs[k].description]]

-----------------------------------------------------------------------------
(* The guard *)

\* the guard test left out
IsActiveNever(active, s) == FALSE

\* activeSyncs.has(sourceId)
IsActive(active, s) == s \in active

\* the source id is not added
AcquireNothing(active, s) == active

\* activeSyncs.add(sourceId)
Acquire(active, s) == active \cup {s}

\* the finally block leaves the source id in
ReleaseNothing(active, s) == active

\* activeSyncs.delete(sourceId)
Release(active, s) == active \ {s}

\* updateSyncStatus(sourceId, 'all', status, error)
WriteStatus(st, s, status, error) ==
    [st EXCEPT ![s] = [status |-> status, error |-> error]]

NoRow == [status |-> "none", error |-> NULL]

-----------------------------------------------------------------------------
(* Executions of syncSource *)

IdleExec ==
    [pc |-> "idle", step |-> 0, i |-> 0, routine |-> "none", msg |-> NULL,
     sf |-> FALSE]

\* the call returned at the guard
NoopExec == [IdleExec EXCEPT !.pc = "noop"]

InFlightPcs == {"getById", "fetch", "yield", "fetchEpg"}

\* between acquiring the guard and releasing it
InFlight(e) == e.pc \in InFlightPcs

\* the promise of the call is settled
Settled(e) == e.pc \in {"noop", "resolved", "rejected"}

EmptySnap == [cats |-> {}, items |-> {}, progs |-> << >>]

\* the rows of source s the read API serves
Snapshot(s) ==
    [cats  |-> {<<id, categories[id].type>> :
                   id \in {x \in DOMAIN categories : categories[x].source_id = s}},
     items |-> {<<id, playlist_items[id].type>> :
                   id \in {x \in DOMAIN playlist_items : playlist_items[x].source_id = s}},
     progs |-> ProgramsOf(epg_programs, s)]

\* the faults still available
CanFault(n) == faults + n <= MaxFaults

\* the guard inside the try block: the call that returns at the guard runs
\* the finally block and removes the source id
CallReleasing(c, s, base) ==
    IF IsActive(activeSyncs, s)
    THEN /\ exec' = IF InFlight(base[c][s]) THEN base
                     ELSE [base EXCEPT ![c][s] = NoopExec]
         /\ activeSyncs' = Release(activeSyncs, s)
         /\ UNCHANGED snap
    ELSE /\ activeSyncs' = Acquire(activeSyncs, s)
         /\ exec' = [base EXCEPT ![c][s] = [IdleExec EXCEPT !.pc = "getById"]]
         /\ snap' = [snap EXCEPT ![c][s] = Snapshot(s)]

\* syncSource from its first line to its first suspension point, called by c;
\* base: the executions before the call
Call(c, s, base) ==
    IF IsActive(activeSyncs, s)
    THEN /\ exec' = IF InFlight(base[c][s]) THEN base
                     ELSE [base EXCEPT ![c][s] = NoopExec]
         /\ UNCHANGED <<activeSyncs, snap>>
    ELSE /\ activeSyncs' = Acquire(activeSyncs, s)
         /\ exec' = [base EXCEPT ![c][s] = [IdleExec EXCEPT !.pc = "getById"]]
         /\ snap' = [snap EXCEPT ![c][s] = Snapshot(s)]

\* the end of syncSource: the success write, the catch block, the finally
\* block.  thrown/msg: what the try block threw (not thrown: msg is the
\* error the routine caught and logged, if any); rt: how the routine ended;
\* sf: a write of a routine step threw; nf: faults injected by the run so far; st: sync_status
\* as the try block left it
Conclude(c, s, thrown, msg, rt, sf, nf, st) ==
    \E wS, wE \in BOOLEAN :
        LET caught == thrown \/ ~wS
            cmsg   == IF thrown THEN msg ELSE StorageMsg
            used   == nf + (IF ~thrown /\ ~wS THEN 1 ELSE 0)
                         + (IF caught /\ ~wE THEN 1 ELSE 0)
        IN  /\ thrown => wS
            /\ ~caught => wE
            /\ CanFault(used)
            /\ faults' = faults + used
            /\ sync_status' =
                  IF ~caught THEN WriteStatus(st, s, "success", NULL)
                  ELSE IF wE THEN WriteStatus(st, s, "error", cmsg)
                  ELSE st
            /\ exec' = [exec EXCEPT ![c][s] =
                  [pc      |-> IF caught /\ ~wE THEN "rejected" ELSE "resolved",
                   step    |-> 0,
                   i       |-> 0,
                   routine |-> rt,
                   msg     |-> IF caught THEN cmsg ELSE msg,
                   sf      |-> sf]]
            /\ activeSyncs' = Release(activeSyncs, s)
            /\ snap' = [snap EXCEPT ![c][s] = EmptySnap]

\* the routine stops at its next suspension point
Suspend(c, s, eff, sf, nf, st) ==
    /\ CanFault(nf)
    /\ faults' = faults + nf
    /\ sync_status' = st
    /\ exec' = [exec EXCEPT ![c][s] =
          [pc |-> eff.cont, step |-> eff.step, i |-> eff.i,
           routine |-> "running", msg |-> NULL, sf |-> sf]]
    /\ UNCHANGED <<activeSyncs, snap>>

\* a run of the routine ended with effect eff
Proceed(c, s, eff, sf, nf, st) ==
    CASE eff.cont = "throw"  -> Conclude(c, s, TRUE, StorageMsg, "threw", TRUE, nf, st)
      [] eff.cont = "return" -> Conclude(c, s, FALSE, NULL, "returned", sf, nf, st)
      [] OTHER               -> Suspend(c, s, eff, sf, nf, st)


-----------------------------------------------------------------------------
(* syncSource *)

\* no routine catches the error of its EPG step
SwallowsNothing(typ) == FALSE

\* the catch block of syncXtream around its EPG step
SwallowsEpgError(typ) == typ = "xtream"

\* the data tables are left alone
StoreUnchanged == UNCHANGED <<categories, playlist_items, epg_programs, epgGood>>

\* the status is set to syncing before the enabled check: a disabled source
\* is skipped with its row saying syncing
ResumeGetByIdStatusFirst(c, s) ==
    /\ exec[c][s].pc = "getById"
    /\ StoreUnchanged
    /\ UNCHANGED <<favorites, serverFavorites, toggleReq, sourceTable, catalog, playlistSize, streamReq, imageReq, readReq, cache, clock, cleared, pass>>
    /\ \E okLookup, wSync \in BOOLEAN :
          IF ~okLookup
          THEN wSync /\ Conclude(c, s, TRUE, StorageMsg, "none", FALSE, 1, sync_status)
          ELSE IF s \notin DOMAIN sourceTable
          THEN wSync /\ Conclude(c, s, TRUE, NotFoundMsg, "none", FALSE, 0, sync_status)
          ELSE IF ~sourceTable[s].enabled
          THEN /\ wSync
               /\ activeSyncs' = Release(Release(activeSyncs, s), s)
               /\ exec' = [exec EXCEPT ![c][s] =
                              [IdleExec EXCEPT !.pc = "resolved", !.routine = "skipped"]]
               /\ snap' = [snap EXCEPT ![c][s] = EmptySnap]
               /\ sync_status' = WriteStatus(sync_status, s, "syncing", NULL)
               /\ UNCHANGED faults
          ELSE IF ~wSync
          THEN Conclude(c, s, TRUE, StorageMsg, "none", FALSE, 1, sync_status)
          ELSE Proceed(c, s,
                       EnterStep(categories, playlist_items, s, sourceTable[s].type,
                                 1, TRUE),
                       FALSE, 0, WriteStatus(sync_status, s, "syncing", NULL))

\* sources.getById resolves or rejects; the run goes on to the first upstream
\* call of the routine
ResumeGetById(c, s) ==
    /\ exec[c][s].pc = "getById"
    /\ StoreUnchanged
    /\ UNCHANGED <<favorites, serverFavorites, toggleReq, sourceTable, catalog, playlistSize, streamReq, imageReq, readReq, cache, clock, cleared, pass>>
    /\ \E okLookup, wSync \in BOOLEAN :
          IF ~okLookup
          THEN wSync /\ Conclude(c, s, TRUE, StorageMsg, "none", FALSE, 1, sync_status)
          ELSE IF s \notin DOMAIN sourceTable
          THEN wSync /\ Conclude(c, s, TRUE, NotFoundMsg, "none", FALSE, 0, sync_status)
          ELSE IF ~sourceTable[s].enabled
          THEN /\ wSync
               /\ activeSyncs' = Release(Release(activeSyncs, s), s)
               /\ exec' = [exec EXCEPT ![c][s] =
                              [IdleExec EXCEPT !.pc = "resolved", !.routine = "skipped"]]
               /\ snap' = [snap EXCEPT ![c][s] = EmptySnap]
               /\ UNCHANGED <<sync_status, faults>>
          ELSE IF ~wSync
          THEN Conclude(c, s, TRUE, StorageMsg, "none", FALSE, 1, sync_status)
          ELSE Proceed(c, s,
                       EnterStep(categories, playlist_items, s, sourceTable[s].type,
                                 1, TRUE),
                       FALSE, 0, WriteStatus(sync_status, s, "syncing", NULL))

\* an upstream catalog call of the routine resolves or rejects; the run goes
\* on through the first batch of the save
ResumeFetch(c, s) ==
    /\ exec[c][s].pc = "fetch"
    /\ UNCHANGED <<favorites, serverFavorites, toggleReq, sourceTable, catalog, playlistSize, streamReq, imageReq, readReq, cache, clock, cleared, pass, epg_programs, epgGood>>
    /\ \E okF, okW \in BOOLEAN :
          IF ~okF
          THEN /\ okW
               /\ UNCHANGED <<categories, playlist_items>>
               /\ Conclude(c, s, TRUE, UpstreamMsg, "threw", exec[c][s].sf, 1,
                           sync_status)
          ELSE \E eff \in {BeginSave(categories, playlist_items, s,
                                      sourceTable[s].type, exec[c][s].step, okW)} :
                   /\ okW \/ eff.cont = "throw"
                   /\ categories' = eff.cats
                   /\ playlist_items' = eff.items
                   /\ Proceed(c, s, eff, exec[c][s].sf, IF okW THEN 0 ELSE 1,
                              sync_status)

\* the batch loop resumes after setImmediate
ResumeYield(c, s) ==
    /\ exec[c][s].pc = "yield"
    /\ UNCHANGED <<favorites, serverFavorites, toggleReq, sourceTable, catalog, playlistSize, streamReq, imageReq, readReq, cache, clock, cleared, pass, epg_programs, epgGood>>
    /\ \E okW \in BOOLEAN :
          \E eff \in {AfterYield(categories, playlist_items, s, sourceTable[s].type,
                                 exec[c][s].step, exec[c][s].i, okW)} :
              /\ okW \/ eff.cont = "throw"
              /\ categories' = eff.cats
              /\ playlist_items' = eff.items
              /\ Proceed(c, s, eff, exec[c][s].sf, IF okW THEN 0 ELSE 1, sync_status)

\* epgParser.fetchAndParse resolves or rejects; the run goes on through the
\* whole of syncEpgFromUrl and the end of syncSource
ResumeEpgFetch(c, s) ==
    /\ exec[c][s].pc = "fetchEpg"
    /\ UNCHANGED <<favorites, serverFavorites, toggleReq, sourceTable, catalog, playlistSize, streamReq, imageReq, readReq, cache, clock, cleared, pass, categories>>
    /\ \E okF, okCh, okDel, okIns \in BOOLEAN : \E feed \in EpgFeeds :
          LET r      == IngestEpg(playlist_items, epg_programs, s, feed,
                                  okCh, okDel, okIns)
              thrown == ~okF \/ r.thrown
              sfNow  == exec[c][s].sf \/ (okF /\ r.thrown)
              nf     == IF thrown THEN 1 ELSE 0
          IN  /\ ~okF => okCh /\ okDel /\ okIns
              /\ ~okCh => okDel /\ okIns
              /\ ~okDel => okIns
              /\ playlist_items' = IF okF THEN r.items ELSE playlist_items
              /\ epg_programs' = IF okF THEN r.progs ELSE epg_programs
              /\ epgGood' = IF ~thrown
                            THEN [epgGood EXCEPT ![s] =
                                     InsertMany(<< >>, s, feed.programmes)]
                            ELSE epgGood
              /\ IF thrown /\ ~SwallowsEpgError(sourceTable[s].type)
                 THEN Conclude(c, s, TRUE, IF okF THEN StorageMsg ELSE UpstreamMsg,
                               "threw", sfNow, nf, sync_status)
                 ELSE Conclude(c, s, FALSE,
                               IF ~thrown THEN NULL
                               ELSE IF okF THEN StorageMsg ELSE UpstreamMsg,
                               "returned", sfNow, nf, sync_status)

-----------------------------------------------------------------------------
(* syncAll and direct callers *)

\* syncSource called without await
CallNotAwaited(e) == TRUE

\* await this.syncSource(source.id): the loop goes on when the call settled
CallSettled(e) == Settled(e)

\* the executions of caller c that are over leave no trace
Forget(c) ==
    [exec EXCEPT ![c] = [s \in AllIds |->
                            IF InFlight(exec[c][s]) THEN exec[c][s] ELSE IdleExec]]

\* the for loop of syncAll after position from: the next enabled source is
\* synced, or the pass completes
Advance(p, from, base) ==
    LET next == {k \in (from + 1)..Len(SourceList) :
                    sourceTable[SourceList[k]].enabled}
    IN  IF next = {}
        THEN /\ pass' = [pass EXCEPT ![p].pc = "completed", ![p].listed = TRUE]
             /\ exec' = base
             /\ UNCHANGED <<activeSyncs, snap>>
        ELSE LET k == CHOOSE x \in next : \A y \in next : x <= y
             IN  /\ pass' = [pass EXCEPT ![p] =
                        [pc |-> "await", idx |-> k, listed |-> TRUE,
                         attempted |-> pass[p].attempted \cup {SourceList[k]}]]
                 /\ Call(p, SourceList[k], base)

\* syncAll is called: it awaits sources.getAll()
SyncAllStart(p) ==
    /\ pass[p].pc \in {"idle", "completed", "failed"}
    /\ pass' = [pass EXCEPT ![p] =
                   [pc |-> "getAll", idx |-> 0, listed |-> FALSE, attempted |-> {}]]
    /\ exec' = Forget(p)
    /\ StoreUnchanged
    /\ UNCHANGED <<favorites, serverFavorites, toggleReq, sourceTable, catalog, playlistSize, streamReq, imageReq, readReq, cache, clock, cleared, activeSyncs, sync_status, faults, snap>>

\* sources.getAll() resolves or rejects
SyncAllListed(p) ==
    /\ pass[p].pc = "getAll"
    /\ StoreUnchanged
    /\ UNCHANGED <<favorites, serverFavorites, toggleReq, sourceTable, catalog, playlistSize, streamReq, imageReq, readReq, cache, clock, cleared, sync_status>>
    /\ \E ok \in BOOLEAN :
          IF ok
          THEN Advance(p, 0, exec) /\ UNCHANGED faults
          ELSE /\ CanFault(1)
               /\ faults' = faults + 1
               /\ pass' = [pass EXCEPT ![p].pc = "failed"]
               /\ UNCHANGED <<exec, activeSyncs, snap>>

\* the awaited syncSource call settled
SyncAllResume(p) ==
    /\ pass[p].pc = "await"
    /\ CallSettled(exec[p][SourceList[pass[p].idx]])
    /\ StoreUnchanged
    /\ UNCHANGED <<favorites, serverFavorites, toggleReq, sourceTable, catalog, playlistSize, streamReq, imageReq, readReq, cache, clock, cleared, sync_status, faults>>
    /\ IF exec[p][SourceList[pass[p].idx]].pc = "rejected"
       THEN /\ pass' = [pass EXCEPT ![p].pc = "failed"]
            /\ UNCHANGED <<exec, activeSyncs, snap>>
       ELSE Advance(p, pass[p].idx, exec)

\* a caller other than syncAll calls syncSource(s)
DirectCall(d, s) ==
    /\ \A t \in AllIds : ~InFlight(exec[d][t])
    /\ Call(d, s, Forget(d))
    /\ StoreUnchanged
    /\ UNCHANGED <<favorites, serverFavorites, toggleReq, sourceTable, catalog, playlistSize, streamReq, imageReq, readReq, cache, clock, cleared, pass, sync_status, faults>>

\* the xtream panel changes its catalog while no sync runs
UpstreamChanges ==
    /\ activeSyncs = {}
    /\ \E rev \in Revisions : rev > catalog /\ catalog' = rev
    /\ StoreUnchanged
    /\ UNCHANGED <<favorites, serverFavorites, toggleReq, sourceTable, playlistSize, streamReq, imageReq, readReq, cache, clock, cleared, activeSyncs, sync_status, exec, pass,
                 faults, snap>>

-----------------------------------------------------------------------------
(* GET /stream (routes/proxy.js).  One action is one run of the handler or *)
(* of one of its callbacks.  fetch: the manifest fetch of rewriteM3u8;      *)
(* proxyReq: the upstream request of the raw relay; onClose: the 'close'   *)
(* listener of the client request is attached; sent: what the response     *)
(* carries; ended: res.end() was called or the pipe ended the response.    *)

Requests == {"r1", "r2"}

\* Strings the handlers inspect are sequences of characters.
NoUrl == << >>

\* http://h/path/a.m3u8
ManifestUrl ==
    <<"h", "t", "t", "p", ":", "/", "/", "h", "/", "p", "a", "t", "h", "/",
      "a", ".", "m", "3", "u", "8">>

\* http://h/a.ts
SegmentUrl ==
    <<"h", "t", "t", "p", ":", "/", "/", "h", "/", "a", ".", "t", "s">>

\* http://h/a.m3u8/s.ts: a segment below a directory named like a manifest
SegmentInManifestDirUrl ==
    <<"h", "t", "t", "p", ":", "/", "/", "h", "/", "a", ".", "m", "3", "u",
      "8", "/", "s", ".", "t", "s">>

\* the url parameter: absent, a manifest url, two segment urls
Urls == {NoUrl, ManifestUrl, SegmentUrl, SegmentInManifestDirUrl}

\* lines of an upstream manifest: a tag, an empty line, a relative and an
\* absolute reference, a reference followed by a blank, and an absolute
\* reference of another scheme
TagLine == <<"#", "E", "X", "T", "M", "3", "U">>
EmptyLine == << >>
RelativeLine == <<"s", "e", "g", "1", ".", "t", "s">>
AbsoluteLine ==
    <<"h", "t", "t", "p", ":", "/", "/", "h", "/", "b", ".", "t", "s">>
PaddedLine == <<"s", "e", "g", "1", ".", "t", "s", " ">>
OtherSchemeLine ==
    <<"f", "t", "p", ":", "/", "/", "h", "/", "b", ".", "t", "s">>

ManifestLines ==
    {TagLine, EmptyLine, RelativeLine, AbsoluteLine, PaddedLine,
     OtherSchemeLine}

MaxLines == 2

\* the manifests of at most MaxLines lines
Manifests ==
    UNION {[1..n -> ManifestLines] : n \in 1..MaxLines}

\* the manifest of a live stream: a tag and one relative segment
ScenarioManifests == {<<TagLine, RelativeLine>>}

\* req.protocol + '://' + req.get('host') + '/api/proxy/stream'
ProxyBase == "http://tv/api/proxy/stream"

IdleRequest ==
    [pc |-> "idle", client |-> "connected", fetch |-> "none",
     proxyReq |-> "none", onClose |-> FALSE, sent |-> "none",
     ended |-> FALSE, url |-> NoUrl, content |-> << >>, body |-> << >>]

\* s.startsWith(prefix)
StartsWith(s, prefix) ==
    /\ Len(s) >= Len(prefix)
    /\ SubSeq(s, 1, Len(prefix)) = prefix

\* s.includes(sub)
Includes(s, sub) ==
    \E i \in 1..(Len(s) - Len(sub) + 1) :
        SubSeq(s, i, i + Len(sub) - 1) = sub

\* s.lastIndexOf(ch) + 1: the position after the last ch, 0 without one
AfterLastIndexOf(s, ch) ==
    IF \E i \in 1..Len(s) : s[i] = ch
    THEN CHOOSE i \in 1..Len(s) :
            s[i] = ch /\ \A j \in (i + 1)..Len(s) : s[j] # ch
    ELSE 0

WhiteSpace == {" ", "\t"}

\* s.trim()
Trim(s) ==
    LET keep == {i \in 1..Len(s) : s[i] \notin WhiteSpace}
    IN  IF keep = {} THEN << >>
        ELSE SubSeq(s, CHOOSE i \in keep : \A j \in keep : i <= j,
                       CHOOSE i \in keep : \A j \in keep : i >= j)

\* the characters joined to a string
RECURSIVE Str(_)
Str(s) == IF s = << >> THEN "" ELSE s[1] \o Str(Tail(s))

\* encodeURIComponent of one character: letters, digits and - _ . ! ~ * ' ( )
\* stay, every other character becomes its percent-encoded UTF-8 byte
EncodeChar(c) ==
    CASE c = ":" -> "%3A"
      [] c = "/" -> "%2F"
      [] c = "?" -> "%3F"
      [] c = "=" -> "%3D"
      [] c = "#" -> "%23"
      [] c = " " -> "%20"
      [] c = "\t" -> "%09"
      [] OTHER -> c

\* encodeURIComponent(s)
RECURSIVE EncodeURIComponent(_)
EncodeURIComponent(s) ==
    IF s = << >> THEN ""
    ELSE EncodeChar(s[1]) \o EncodeURIComponent(Tail(s))

\* m3u8Url.substring(0, m3u8Url.lastIndexOf('/') + 1)
M3u8Base(m3u8Url) == SubSeq(m3u8Url, 1, AfterLastIndexOf(m3u8Url, "/"))

Http == <<"h", "t", "t", "p">>

\* the replacer of rewriteM3u8, applied to a line the pattern matches
RewriteMatch(m3u8Base, match, baseUrl) ==
    LET trimmed  == Trim(match)
        chunkUrl == IF ~StartsWith(trimmed, Http) THEN m3u8Base \o trimmed
                    ELSE trimmed
    IN  baseUrl \o "?url=" \o EncodeURIComponent(chunkUrl)

\* /^(?!#)(.+)$/gm matches a line: it is not empty and does not start with #
PatternMatches(line) == line # << >> /\ line[1] # "#"

\* rewriteM3u8 on the fetched text: content.replace(pattern, replacer),
\* the text taken line by line
RewriteM3u8(m3u8Url, content, baseUrl) ==
    [i \in 1..Len(content) |->
        IF PatternMatches(content[i])
        THEN RewriteMatch(M3u8Base(m3u8Url), content[i], baseUrl)
        ELSE Str(content[i])]

\* url.includes('.m3u8')
IsManifestUrl(url) == Includes(url, <<".", "m", "3", "u", "8">>)

\* the sync engine is left alone
SyncUnchanged ==
    UNCHANGED <<favorites, serverFavorites, toggleReq, sourceTable, catalog, playlistSize, activeSyncs, sync_status,
                categories, playlist_items, epg_programs, exec, pass, faults,
                snap, epgGood>>

\* no upstream request is opened: the request is answered 502
AnswerBadGateway(q) ==
    [q EXCEPT !.pc = "done", !.sent = "502", !.ended = TRUE]

\* the native proxy: lib.get(url, options, callback), then the error and
\* the close listeners are attached
OpenProxyReq(q) ==
    [q EXCEPT !.pc = "relay", !.proxyReq = "open", !.onClose = TRUE]

\* the handler runs up to its first suspension point
StreamGet(r, url) ==
    /\ streamReq[r].pc = "idle"
    /\ streamReq' = [streamReq EXCEPT ![r] =
          IF url = NoUrl
          THEN [@ EXCEPT !.pc = "done", !.sent = "400", !.ended = TRUE]
          ELSE IF IsManifestUrl(url)
          THEN [@ EXCEPT !.pc = "fetch", !.fetch = "open", !.url = url]
          ELSE OpenProxyReq([@ EXCEPT !.url = url])]
    /\ SyncUnchanged
    /\ UNCHANGED <<imageReq, readReq, cache, clock, cleared>>

\* rewriteM3u8: await fetch(m3u8Url) settles; a rejected fetch or a status
\* that is not ok makes rewriteM3u8 return null and the handler go on to the
\* native proxy
ManifestResponse(r) ==
    /\ streamReq[r].pc = "fetch"
    /\ \E ok \in BOOLEAN :
          streamReq' = [streamReq EXCEPT ![r] =
             IF ok THEN [@ EXCEPT !.pc = "text"]
             ELSE OpenProxyReq([@ EXCEPT !.fetch = "done"])]
    /\ SyncUnchanged
    /\ UNCHANGED <<imageReq, readReq, cache, clock, cleared>>

\* rewriteM3u8: await response.text() settles; the rewritten manifest is
\* sent, or the handler goes on to the native proxy
ManifestBody(r, content) ==
    /\ streamReq[r].pc = "text"
    /\ \E ok \in BOOLEAN :
          streamReq' = [streamReq EXCEPT ![r] =
             IF ok THEN [@ EXCEPT !.pc = "done", !.fetch = "done",
                                  !.sent = "manifest", !.ended = TRUE,
                                  !.content = content,
                                  !.body = RewriteM3u8(streamReq[r].url, content,
                                                       ProxyBase)]
             ELSE OpenProxyReq([@ EXCEPT !.fetch = "done"])]
    /\ SyncUnchanged
    /\ UNCHANGED <<imageReq, readReq, cache, clock, cleared>>

\* the callback of lib.get: status and headers are forwarded, the body is
\* piped
ProxyResponse(r) ==
    /\ streamReq[r].pc = "relay"
    /\ streamReq[r].proxyReq = "open"
    /\ streamReq[r].sent = "none"
    /\ streamReq' = [streamReq EXCEPT ![r].sent = "upstream"]
    /\ SyncUnchanged
    /\ UNCHANGED <<imageReq, readReq, cache, clock, cleared>>

\* the upstream body ends: proxyRes.pipe(res) ends the response
ProxyEnd(r) ==
    /\ streamReq[r].pc = "relay"
    /\ streamReq[r].proxyReq = "open"
    /\ streamReq[r].sent = "upstream"
    /\ streamReq' = [streamReq EXCEPT ![r].pc = "done", ![r].proxyReq = "ended",
                                      ![r].ended = TRUE]
    /\ SyncUnchanged
    /\ UNCHANGED <<imageReq, readReq, cache, clock, cleared>>

\* proxyReq.on('error'): res.status(502).end() unless the headers are sent;
\* with the headers sent the listener does nothing, and a pipe whose source
\* fails does not end its destination
ProxyError(r) ==
    /\ streamReq[r].pc = "relay"
    /\ streamReq[r].proxyReq = "open"
    /\ streamReq' = [streamReq EXCEPT
          ![r].pc = "done",
          ![r].proxyReq = "failed",
          ![r].sent = IF @ = "none" THEN "502" ELSE @,
          ![r].ended = (streamReq[r].sent = "none")]
    /\ SyncUnchanged
    /\ UNCHANGED <<imageReq, readReq, cache, clock, cleared>>

\* the client closes the connection; req.on('close') runs if it is attached
ClientDisconnect(r) ==
    /\ streamReq[r].pc # "idle"
    /\ streamReq[r].client = "connected"
    /\ streamReq' = [streamReq EXCEPT ![r] =
          IF @.onClose /\ @.proxyReq = "open"
          THEN [@ EXCEPT !.client = "closed", !.proxyReq = "destroyed",
                         !.pc = "done"]
          ELSE [@ EXCEPT !.client = "closed"]]
    /\ SyncUnchanged
    /\ UNCHANGED <<imageReq, readReq, cache, clock, cleared>>

-----------------------------------------------------------------------------
(* GET /image (routes/proxy.js).  upstream: the request opened by lib.get;  *)
(* up: the response the upstream gave; status, headers, location: what the *)
(* response to the client carries.  Header names are held in lower case,   *)
(* as node holds them.                                                     *)

\* /img/a.png
LocalImageUrl ==
    <<"/", "i", "m", "g", "/", "a", ".", "p", "n", "g">>

\* http://h/a.png
RemoteImageUrl ==
    <<"h", "t", "t", "p", ":", "/", "/", "h", "/", "a", ".", "p", "n", "g">>

\* http: starts with 'http' and is no url
InvalidImageUrl == <<"h", "t", "t", "p", ":">>

ImageUrls == {NoUrl, LocalImageUrl, RemoteImageUrl, InvalidImageUrl}

AllowOrigin == "access-control-allow-origin"
CacheControl == "cache-control"
ContentType == "content-type"

\* the values an upstream gives a header
UpstreamValues(h) ==
    CASE h = AllowOrigin -> {"*", "http://other"}
      [] h = CacheControl -> {"no-store"}
      [] OTHER -> {"image/png"}

\* the headers of an upstream response: any of the three headers, present
\* or not
UpstreamHeaders ==
    UNION {{hs \in [names -> {"*", "http://other", "no-store", "image/png"}] :
               \A h \in names : hs[h] \in UpstreamValues(h)} :
           names \in SUBSET {AllowOrigin, CacheControl, ContentType}}

UpstreamStatuses == {200, 404}

NoResponse == [status |-> 0, headers |-> << >>]

IdleImage ==
    [pc |-> "idle", url |-> NoUrl, upstream |-> "none", up |-> NoResponse,
     sent |-> "none", status |-> 0, headers |-> << >>, location |-> NoUrl,
     ended |-> FALSE, client |-> "connected"]

\* the key under which res.setHeader holds a header: name.toLowerCase()
HeaderKey(name) ==
    CASE name = "Access-Control-Allow-Origin" -> AllowOrigin
      [] name = "Cache-Control" -> CacheControl
      [] OTHER -> name

\* res.setHeader(name, value)
SetHeader(hs, name, value) ==
    [h \in DOMAIN hs \cup {HeaderKey(name)} |->
        IF h = HeaderKey(name) THEN value ELSE hs[h]]

\* the loop over the upstream headers: every header but
\* access-control-allow-origin is set
ForwardedHeaders(up) ==
    [h \in DOMAIN up \ {AllowOrigin} |-> up[h]]

\* the upstream headers are forwarded as they are
MirroredHeaders(up) == up

\* the headers of the response after the callback of lib.get
ImageHeaders(up) ==
    SetHeader(SetHeader(ForwardedHeaders(up),
                        "Access-Control-Allow-Origin", "*"),
              "Cache-Control", "public, max-age=86400")

\* the handler: 400 without url, a redirect for a url that does not start
\* with 'http', else lib.get(url, callback), which throws for an invalid url
ImageGet(r, url) ==
    /\ imageReq[r].pc = "idle"
    /\ imageReq' = [imageReq EXCEPT ![r] =
          IF url = NoUrl
          THEN [@ EXCEPT !.pc = "done", !.sent = "400", !.status = 400,
                         !.ended = TRUE]
          ELSE IF ~StartsWith(url, Http)
          THEN [@ EXCEPT !.pc = "done", !.url = url, !.sent = "redirect",
                         !.status = 302, !.location = url, !.ended = TRUE]
          ELSE IF url = InvalidImageUrl
          THEN [@ EXCEPT !.pc = "done", !.url = url, !.sent = "500",
                         !.status = 500, !.ended = TRUE]
          ELSE [@ EXCEPT !.pc = "relay", !.url = url, !.upstream = "open"]]
    /\ SyncUnchanged
    /\ UNCHANGED <<streamReq, readReq, cache, clock, cleared>>

\* the callback of lib.get: the upstream status and headers are forwarded,
\* the CORS and cache headers are set, the body is piped
ImageResponse(r, status, headers) ==
    /\ imageReq[r].pc = "relay"
    /\ imageReq[r].upstream = "open"
    /\ imageReq[r].sent = "none"
    /\ imageReq' = [imageReq EXCEPT ![r] =
          [@ EXCEPT !.up = [status |-> status, headers |-> headers],
                    !.sent = "upstream", !.status = status,
                    !.headers = ImageHeaders(headers)]]
    /\ SyncUnchanged
    /\ UNCHANGED <<streamReq, readReq, cache, clock, cleared>>

\* the upstream body ends: proxyRes.pipe(res) ends the response
ImageEnd(r) ==
    /\ imageReq[r].pc = "relay"
    /\ imageReq[r].upstream = "open"
    /\ imageReq[r].sent = "upstream"
    /\ imageReq' = [imageReq EXCEPT ![r].pc = "done", ![r].upstream = "ended",
                                    ![r].ended = TRUE]
    /\ SyncUnchanged
    /\ UNCHANGED <<streamReq, readReq, cache, clock, cleared>>

\* on('error'): res.status(404).end(); a status set after the headers were
\* sent does not reach the client
ImageError(r) ==
    /\ imageReq[r].pc = "relay"
    /\ imageReq[r].upstream = "open"
    /\ imageReq' = [imageReq EXCEPT ![r] =
          IF @.sent = "none"
          THEN [@ EXCEPT !.pc = "done", !.upstream = "failed", !.sent = "404",
                         !.status = 404, !.ended = TRUE]
          ELSE [@ EXCEPT !.pc = "done", !.upstream = "failed",
                         !.ended = TRUE]]
    /\ SyncUnchanged
    /\ UNCHANGED <<streamReq, readReq, cache, clock, cleared>>

\* the client closes the connection: the handler attaches no listener to
\* req, so the request opened by lib.get is left as it is
ImageClientDisconnect(r) ==
    /\ imageReq[r].pc # "idle"
    /\ imageReq[r].client = "connected"
    /\ imageReq' = [imageReq EXCEPT ![r].client = "closed"]
    /\ SyncUnchanged
    /\ UNCHANGED <<streamReq, readReq, cache, clock, cleared>>

-----------------------------------------------------------------------------
(* The read endpoints and the response cache (routes/proxy.js).  A request *)
(* carries the route, the sourceId parameter as the string of the path,    *)
(* the detail id (series_id or vod_id, "" when absent) and the type        *)
(* parameter of the stream-URL route.  status and body are the response,   *)
(* called tells whether the request made an upstream call, fault what has  *)
(* thrown while it was handled.                                            *)

CategoryRoutes == {"live_categories", "vod_categories", "series_categories"}
StreamRoutes == {"live_streams", "vod_streams", "series"}
InfoRoutes == {"series_info", "vod_info"}
\* the routes that await sources.getById
LookupRoutes == {"auth", "stream_url"} \cup InfoRoutes
\* the routes answered from the tables
TableRoutes == CategoryRoutes \cup StreamRoutes \cup {"m3u", "epg"}
Routes == LookupRoutes \cup TableRoutes

\* the type a category or stream route passes to its helper
RouteType(route) ==
    CASE route \in {"live_categories", "live_streams", "m3u"} -> "live"
      [] route \in {"vod_categories", "vod_streams"} -> "movie"
      [] OTHER -> "series"

\* req.params.sourceId: the id of a source, of no source, or no number
SourceParams == {ToString(i) : i \in AllIds} \cup {"abc"}

\* what parseInt gives for a string that is no number
NaN == 0 - 1

\* parseInt(req.params.sourceId)
ParseInt(param) ==
    IF \E i \in AllIds : ToString(i) = param
    THEN CHOOSE i \in AllIds : ToString(i) = param
    ELSE NaN

\* req.query.series_id / req.query.vod_id
Details == {"", "5"}

\* req.params.type of the stream-URL route
TypeParams == {"live", "movie", "series", "radio"}

\* what the panel answers to authenticate / getSeriesInfo / getVodInfo:
\* parsed JSON, an object or null
Payloads == {"v1", NULL}

\* the times, in seconds, at which something happens
Times == {0, 400, 3700}

AuthTtl == 300
InfoTtl == 3600

IdleRead ==
    [pc |-> "idle", route |-> "none", sourceId |-> "", detail |-> "",
     type |-> "", source |-> NaN, status |-> 0, body |-> NULL,
     called |-> FALSE, hit |-> FALSE, fault |-> "none"]

\* sources.getById(param) finds a source: one with that id is configured
HasSource(table, param) == ParseInt(param) \in DOMAIN table

\* sources.getById(param), when it finds a source
GetById(table, param) == table[ParseInt(param)]

\* `xtream:${source.id}:auth`, `xtream:${source.id}:series_info:${seriesId}`,
\* `xtream:${source.id}:vod_info:${vodId}`
CacheKey(id, route, detail) ==
    IF route = "auth" THEN "xtream:" \o ToString(id) \o ":auth"
    ELSE "xtream:" \o ToString(id) \o ":" \o route \o ":" \o detail

Ttl(route) == IF route = "auth" THEN AuthTtl ELSE InfoTtl

\* cache.get(key) at time now: the value of an entry that has not expired
CacheGet(c, key, now) ==
    IF key \in DOMAIN c /\ now < c[key].expires THEN c[key].value ELSE UNDEF

\* cache.set(key, value, ttlSeconds) at time now
CacheSet(c, key, value, ttl, now) ==
    [k \in DOMAIN c \cup {key} |->
        IF k = key THEN [value |-> value, expires |-> now + ttl] ELSE c[k]]

\* the keys namespaced under a source
KeysOfSource(id) ==
    {CacheKey(id, route, detail) :
        route \in {"auth"} \cup InfoRoutes, detail \in Details}

\* cache.clearSource(sourceId)
ClearSource(c, param) ==
    [k \in DOMAIN c \ KeysOfSource(ParseInt(param)) |-> c[k]]

\* the channels of GET /m3u/:sourceId
ReformattedChannels(channels) ==
    {[id         |-> c.stream_id,
      groupTitle |-> OrElse(c.category_id, "Uncategorized"),
      url        |-> OrElse(Field(c, "stream_url"), Field(c, "url")),
      tvgLogo    |-> c.stream_icon] @@ c : c \in channels}

\* the groups of GET /m3u/:sourceId
ReformattedGroups(groups) ==
    {[id |-> g.category_id, name |-> g.category_name, channelCount |-> 0] :
        g \in groups}

\* the channels of GET /epg/:sourceId: the stored epg_channel items, else
\* one channel per channel id of the programmes
EpgChannels(items, sourceId, programmes) ==
    LET stored == {x \in DOMAIN items : /\ items[x].source_id = sourceId
                                        /\ items[x].type = "epg_channel"}
    IN  IF stored # {}
        THEN {[id   |-> items[x].item_id,
               name |-> items[x].name,
               icon |-> items[x].stream_icon,
               data |-> items[x].data] : x \in stored}
        ELSE {[id |-> programmes[k].channelId, name |-> programmes[k].channelId] :
                 k \in 1..Len(programmes)}

\* the body a route answers from the tables
TableBody(route, sourceId, now) ==
    CASE route \in CategoryRoutes ->
            GetCategoriesFromDb(categories, sourceId, RouteType(route))
      [] route \in StreamRoutes ->
            GetStreamsFromDb(playlist_items, sourceId, RouteType(route), UNDEF)
      [] route = "m3u" ->
            [channels |-> ReformattedChannels(
                              GetStreamsFromDb(playlist_items, sourceId, "live", NULL)),
             groups   |-> ReformattedGroups(
                              GetCategoriesFromDb(categories, sourceId, "live"))]
      [] OTHER ->
            LET programmes == EpgProgrammes(epg_programs, sourceId, now)
            IN  [channels   |-> EpgChannels(playlist_items, sourceId, programmes),
                 programmes |-> programmes]

ReadUnchanged ==
    /\ SyncUnchanged
    /\ UNCHANGED <<streamReq, imageReq>>

Respond(q, status, body) ==
    [q EXCEPT !.pc = "done", !.status = status, !.body = body]

\* the catch clause of a handler answers
Catch(q, fault, status, body) ==
    [Respond(q, status, body) EXCEPT !.fault = fault]

\* a request arrives.  A route answered from the tables runs to its end:
\* 200 with the rows of parseInt(sourceId), 500 when the database throws.
\* Another route runs up to its await of sources.getById.
ReadGet(r, route, param, detail, type) ==
    /\ readReq[r].pc \in {"idle", "done"}
    /\ LET q == [IdleRead EXCEPT !.route = route, !.sourceId = param,
                                 !.detail = detail, !.type = type]
       IN  IF route \in TableRoutes
           THEN \E ok \in BOOLEAN :
                   readReq' = [readReq EXCEPT ![r] =
                      IF ok
                      THEN Respond(q, 200,
                                   TableBody(route, ParseInt(param), clock * 1000))
                      ELSE Catch(q, "storage", 500, "Database error")]
           ELSE readReq' = [readReq EXCEPT ![r] = [q EXCEPT !.pc = "lookup"]]
    /\ UNCHANGED <<cache, clock, cleared>>
    /\ ReadUnchanged

\* the lookup has found the source: the rest of the handler up to its next
\* await
AfterLookup(q, source) ==
    LET key    == CacheKey(source.id, q.route, q.detail)
        cached == CacheGet(cache, key, clock)
        found  == [q EXCEPT !.source = source.id]
    IN  CASE q.route = "auth" ->
               IF source.type # "xtream" THEN Respond(q, 404, "Source not found")
               ELSE IF ~Falsy(cached)
               THEN [Respond(found, 200, cached) EXCEPT !.hit = TRUE]
               ELSE [found EXCEPT !.pc = "upstream", !.called = TRUE]
          [] q.route \in InfoRoutes ->
               IF Falsy(q.detail) THEN Respond(found, 400, "id required")
               ELSE IF ~Falsy(cached)
               THEN [Respond(found, 200, cached) EXCEPT !.hit = TRUE]
               ELSE [found EXCEPT !.pc = "upstream", !.called = TRUE]
          [] OTHER ->
               IF source.type # "xtream"
               THEN Respond(q, 404, "Xtream source not found")
               ELSE IF q.type \notin {"live", "movie", "series"}
               THEN Respond(found, 400, "Invalid stream type")
               ELSE Respond(found, 200, <<q.type, q.sourceId>>)

\* await sources.getById settles: it throws (the catch of the stream-URL
\* route answers 500, that of the other routes 502), finds no source (404),
\* or finds the source
ReadLookup(r) ==
    /\ readReq[r].pc = "lookup"
    /\ LET q == readReq[r]
       IN  \E ok \in BOOLEAN :
              readReq' = [readReq EXCEPT ![r] =
                 IF ~ok
                 THEN IF q.route = "stream_url"
                      THEN Catch(q, "storage", 500, "Failed to get stream URL")
                      ELSE Catch(q, "storage", 502, "Upstream error")
                 ELSE IF ~HasSource(sourceTable, q.sourceId)
                 THEN Respond(q, 404, "Source not found")
                 ELSE AfterLookup(q, GetById(sourceTable, q.sourceId))]
    /\ cleared' = IF readReq'[r].hit \/ readReq'[r].pc = "upstream"
                  THEN cleared \ {CacheKey(readReq'[r].source, readReq[r].route,
                                            readReq[r].detail)}
                  ELSE cleared
    /\ UNCHANGED <<cache, clock>>
    /\ ReadUnchanged

\* the upstream call settles: the payload is cached and sent, or the call
\* has thrown and the catch answers 502
ReadUpstream(r, data) ==
    /\ readReq[r].pc = "upstream"
    /\ LET q == readReq[r]
       IN  \E ok \in BOOLEAN :
              IF ok
              THEN /\ cache' = CacheSet(cache, CacheKey(q.source, q.route, q.detail),
                                        data, Ttl(q.route), clock)
                   /\ readReq' = [readReq EXCEPT ![r] = Respond(q, 200, data)]
              ELSE /\ cache' = cache
                   /\ readReq' = [readReq EXCEPT ![r] =
                                     Catch(q, "upstream", 502, "Upstream error")]
    /\ UNCHANGED <<clock, cleared>>
    /\ ReadUnchanged

\* DELETE /cache/:sourceId; one that finds nothing to invalidate changes
\* nothing
ClearCache(param) ==
    /\ cache' = ClearSource(cache, param)
    /\ cache' # cache
    /\ cleared' = cleared \cup (DOMAIN cache \ DOMAIN cache')
    /\ UNCHANGED <<readReq, clock>>
    /\ ReadUnchanged

\* time passes
Tick ==
    /\ \E t \in Times : t > clock /\ clock' = t
    /\ UNCHANGED <<readReq, cache, cleared>>
    /\ ReadUnchanged

-----------------------------------------------------------------------------

\* the configured sources: an m3u and an epg source, and a disabled one
SourcesM3u ==
    [s \in Sources |->
        [id |-> s,
         type |-> CASE s = 1 -> "m3u" [] s = 2 -> "epg" [] OTHER -> "xtream",
         enabled |-> s # 3]]

\* the configured sources: an xtream source, and two disabled ones
SourcesXtream ==
    [s \in Sources |->
        [id |-> s,
         type |-> CASE s = 1 -> "xtream" [] s = 2 -> "epg" [] OTHER -> "m3u",
         enabled |-> s = 1]]

\* the configured sources: an m3u source alone
SourcesBulk ==
    [s \in Sources |->
        [id |-> s,
         type |-> CASE s = 1 -> "m3u" [] s = 2 -> "epg" [] OTHER -> "xtream",
         enabled |-> s = 1]]

InitOf(table, n) ==
    /\ sourceTable = table
    /\ catalog = 1
    /\ playlistSize = n
    /\ streamReq = [r \in Requests |-> IdleRequest]
    /\ imageReq = [r \in Requests |-> IdleImage]
    /\ readReq = [r \in Requests |-> IdleRead]
    /\ cache = << >>
    /\ cleared = {}
    /\ clock = 0
    /\ activeSyncs = {}
    /\ sync_status = [s \in AllIds |-> NoRow]
    /\ categories = << >>
    /\ playlist_items = << >>
    /\ epg_programs = << >>
    /\ exec = [c \in Callers |-> [s \in AllIds |-> IdleExec]]
    /\ pass = [p \in Passes |->
                  [pc |-> "idle", idx |-> 0, listed |-> FALSE, attempted |-> {}]]
    /\ faults = 0
    /\ snap = [c \in Callers |-> [s \in AllIds |-> EmptySnap]]
    /\ epgGood = [s \in AllIds |-> << >>]
    /\ favorites = {}
    /\ serverFavorites = {}
    /\ toggleReq = [t \in Toggles |-> IdleToggle]

InitWith(table) == InitOf(table, 0)

Init == InitWith(SourcesM3u)

\* an m3u source whose playlist has one of PlaylistSizes channels
InitBatch == \E n \in PlaylistSizes : InitOf(SourcesBulk, n)

InitXtream == InitWith(SourcesXtream)

Next ==
    \/ \E p \in Passes : SyncAllStart(p)
    \/ \E p \in Passes : SyncAllListed(p)
    \/ \E p \in Passes : SyncAllResume(p)
    \/ \E d \in Directs, s \in DirectIds : DirectCall(d, s)
    \/ \E c \in Callers, s \in AllIds : ResumeGetById(c, s)
    \/ \E c \in Callers, s \in AllIds : ResumeFetch(c, s)
    \/ \E c \in Callers, s \in AllIds : ResumeYield(c, s)
    \/ \E c \in Callers, s \in AllIds : ResumeEpgFetch(c, s)

\* syncAll passes alone
NextPass ==
    \/ \E p \in Passes : SyncAllStart(p)
    \/ \E p \in Passes : SyncAllListed(p)
    \/ \E p \in Passes : SyncAllResume(p)
    \/ \E p \in Passes, s \in Sources : ResumeGetById(p, s)
    \/ \E p \in Passes, s \in Sources : ResumeFetch(p, s)
    \/ \E p \in Passes, s \in Sources : ResumeYield(p, s)
    \/ \E p \in Passes, s \in Sources : ResumeEpgFetch(p, s)

\* syncAll passes over sources without an EPG step
NextBatch ==
    \/ \E p \in Passes : SyncAllStart(p)
    \/ \E p \in Passes : SyncAllListed(p)
    \/ \E p \in Passes : SyncAllResume(p)
    \/ \E p \in Passes, s \in Sources : ResumeGetById(p, s)
    \/ \E p \in Passes, s \in Sources : ResumeFetch(p, s)
    \/ \E p \in Passes, s \in Sources : ResumeYield(p, s)

\* syncAll passes, the panel's catalog changing between two syncs
NextResync ==
    \/ NextPass
    \/ UpstreamChanges

\* GET /stream requests
NextStream ==
    \/ \E r \in Requests, url \in Urls : StreamGet(r, url)
    \/ \E r \in Requests : ManifestResponse(r)
    \/ \E r \in Requests, content \in ScenarioManifests : ManifestBody(r, content)
    \/ \E r \in Requests : ProxyResponse(r)
    \/ \E r \in Requests : ProxyEnd(r)
    \/ \E r \in Requests : ProxyError(r)
    \/ \E r \in Requests : ClientDisconnect(r)

\* one GET /stream request, the upstream answering with any manifest
NextManifest ==
    \/ \E url \in Urls : StreamGet("r1", url)
    \/ ManifestResponse("r1")
    \/ \E content \in Manifests : ManifestBody("r1", content)
    \/ ProxyResponse("r1")
    \/ ProxyEnd("r1")
    \/ ProxyError("r1")
    \/ ClientDisconnect("r1")

\* GET /image requests
NextImage ==
    \/ \E r \in Requests, url \in ImageUrls : ImageGet(r, url)
    \/ \E r \in Requests, status \in UpstreamStatuses, headers \in UpstreamHeaders :
          ImageResponse(r, status, headers)
    \/ \E r \in Requests : ImageEnd(r)
    \/ \E r \in Requests : ImageError(r)
    \/ \E r \in Requests : ImageClientDisconnect(r)

\* the requests of every route: the detail id is a parameter of the info
\* routes, asked of the xtream source, of no source and without a number;
\* the type is a parameter of the stream-URL route
ReadRequests ==
    {req \in Routes \X SourceParams \X Details \X (TypeParams \cup {""}) :
        /\ req[1] \notin InfoRoutes => req[3] = ""
        /\ req[1] \in InfoRoutes => req[2] \in {"1", ToString(MissingId), "abc"}
        /\ req[1] = "stream_url" <=> req[4] # ""}

\* read requests of every route, one after the other
NextRead ==
    \/ \E req \in ReadRequests : ReadGet("r1", req[1], req[2], req[3], req[4])
    \/ ReadLookup("r1")
    \/ \E data \in Payloads : ReadUpstream("r1", data)

\* the requests of the cached routes: authenticate and series_info of the
\* xtream source, vod_info of another source
CachedRequests == {<<"auth", "1">>, <<"series_info", "1">>, <<"vod_info", "2">>}

\* requests of the cached routes, a concurrent series_info request, cache
\* invalidation and time
NextCache ==
    \/ \E req \in CachedRequests : ReadGet("r1", req[1], req[2], "5", "")
    \/ ReadGet("r2", "series_info", "1", "5", "")
    \/ \E r \in Requests : ReadLookup(r)
    \/ \E r \in Requests, data \in Payloads : ReadUpstream(r, data)
    \/ \E param \in {"1", "2"} : ClearCache(param)
    \/ Tick

\* the pending continuation of caller c's syncSource call runs
Resume(c) ==
    \E s \in AllIds :
        \/ ResumeGetById(c, s)
        \/ ResumeFetch(c, s)
        \/ ResumeYield(c, s)
        \/ ResumeEpgFetch(c, s)

\* direct syncSource calls alone, for every id
NextDirect ==
    \/ \E d \in Directs, s \in AllIds : DirectCall(d, s)
    \/ \E d \in Directs, s \in AllIds : ResumeGetById(d, s)
    \/ \E d \in Directs, s \in AllIds : ResumeFetch(d, s)
    \/ \E d \in Directs, s \in AllIds : ResumeYield(d, s)
    \/ \E d \in Directs, s \in AllIds : ResumeEpgFetch(d, s)

\* every pending lookup, upstream call and yield is eventually resumed
Fairness == \A c \in Callers : WF_vars(Resume(c))

\* syncAll passes and direct syncSource calls over an m3u and an epg source
Spec == Init /\ [][Next]_vars

\* direct syncSource calls over an m3u, an epg, a disabled and a missing
\* source, every pending continuation eventually run
FairDirectSpec == Init /\ [][NextDirect]_vars /\ Fairness

\* syncAll passes over an xtream source
SpecXtream == InitXtream /\ [][NextPass]_vars

\* syncAll passes over an m3u source with a playlist of several batches
SpecBatch == InitBatch /\ [][NextBatch]_vars

\* two concurrent GET /stream requests
SpecStream == Init /\ [][NextStream]_vars

\* syncAll passes over an xtream source whose catalog changes
SpecResync == InitXtream /\ [][NextResync]_vars

\* read requests over the sources of an xtream panel, an epg feed and a
\* playlist
SpecRead == InitXtream /\ [][NextRead]_vars

\* two concurrent requests of the cached routes, the cache being cleared
\* and its entries expiring
SpecCache == InitXtream /\ [][NextCache]_vars

\* two concurrent GET /image requests
SpecImage == Init /\ [][NextImage]_vars

\* one GET /stream request over the manifests of at most MaxLines lines
SpecManifest == Init /\ [][NextManifest]_vars


-----------------------------------------------------------------------------
(* saveCategories and saveStreams called on their own, with lists of fewer *)
(* than BATCH_SIZE records: one insertBatch transaction, then the yield.   *)

\* three records of one upstream list: two with the same id and different
\* fields, one with another id
SavedItems ==
    { [stream_id |-> "10", series_id |-> "10", name |-> "Heat",
       category_id |-> "1", stream_icon |-> "heat.png", cover |-> "heat.png",
       container_extension |-> "mp4", rating |-> "8", added |-> "t1",
       releaseDate |-> "1995", last_modified |-> "t1"],
      [stream_id |-> "10", series_id |-> "10", name |-> "Heat (Remastered)",
       category_id |-> "4", stream_icon |-> "heat2.png", cover |-> "heat2.png",
       container_extension |-> "mkv", rating |-> "7", added |-> "t2",
       releaseDate |-> "1996", last_modified |-> "t2"],
      [stream_id |-> "11", series_id |-> "11", name |-> "Ronin",
       category_id |-> "1", stream_icon |-> "ronin.png", cover |-> "ronin.png",
       container_extension |-> "mp4", rating |-> "7", added |-> "t1",
       releaseDate |-> "1998", last_modified |-> "t1"] }

\* three categories of one upstream list: two with the same id
SavedCategories ==
    { [category_id |-> "1", category_name |-> "News", parent_id |-> "0"],
      [category_id |-> "1", category_name |-> "World News", parent_id |-> "7"],
      [category_id |-> "2", category_name |-> "Films", parent_id |-> "0"] }

\* the lists of one or two of the records
ListsOf(records) == UNION {[1..n -> records] : n \in {1, 2}}

\* the types of the saves: a movie binds stream_id, container_extension and
\* rating, a series series_id, cover, rating and releaseDate
SaveTypes == {"movie", "series"}

\* the sources the saves are called for
SaveSources == {1}

\* the saves touch the two catalog tables alone
SaveUnchanged ==
    UNCHANGED <<favorites, serverFavorites, toggleReq, sourceTable, catalog, playlistSize, streamReq, imageReq,
                readReq, cache, clock, cleared, activeSyncs, sync_status,
                epg_programs, exec, pass, faults, snap, epgGood>>

\* saveStreams(sourceId, type, items)
SaveStreams(sourceId, type, items) ==
    /\ playlist_items' = InsertItemBatch(playlist_items, sourceId, type, items)
    /\ UNCHANGED categories
    /\ SaveUnchanged

\* saveCategories(sourceId, type, categories)
SaveCategories(sourceId, type, cats) ==
    /\ categories' = InsertCategoryBatch(categories, sourceId, type, cats)
    /\ UNCHANGED playlist_items
    /\ SaveUnchanged

NextSave ==
    \/ \E s \in SaveSources, type \in SaveTypes, items \in ListsOf(SavedItems) :
          SaveStreams(s, type, items)
    \/ \E s \in SaveSources, type \in SaveTypes, cats \in ListsOf(SavedCategories) :
          SaveCategories(s, type, cats)

\* calls of saveStreams and saveCategories
SpecSave == InitXtream /\ [][NextSave]_vars


-----------------------------------------------------------------------------
(* The favorites of the EPG guide (public/js/components/EpgGuide.js).  A   *)
(* key is `${sourceId}:${channelId}`.  The guide has loaded the favorites  *)
(* the server holds; a click on a favorite button calls toggleFavorite,    *)
(* which runs to its await of the API call; the call settles in a later    *)
(* step, the server having applied it when it succeeds.                    *)

\* the keys of the channels of the guide
FavoriteKeys == {"1:10", "2:10"}

\* this.favorites.add(key) / this.favorites.delete(key)
SetMembership(set, key, member) ==
    IF member THEN set \cup {key} ELSE set \ {key}

\* the catch block: the membership before the toggle is restored
Revert(set, key, wasFavorite) == SetMembership(set, key, wasFavorite)

\* API.favorites.add / API.favorites.remove applied by the server
ApiApply(server, key, wasFavorite) == SetMembership(server, key, ~wasFavorite)

\* the sync engine and the proxy routes are left alone
GuideUnchanged ==
    UNCHANGED <<sourceTable, catalog, playlistSize, streamReq, imageReq,
                readReq, cache, clock, cleared, activeSyncs, sync_status,
                categories, playlist_items, epg_programs, exec, pass, faults,
                snap, epgGood>>

\* toggleFavorite(sourceId, channelId) up to its await: the optimistic
\* update, then the API call is sent
ToggleFavorite(t, key) ==
    /\ toggleReq[t].pc = "idle"
    /\ LET wasFavorite == key \in favorites IN
       /\ favorites' = SetMembership(favorites, key, ~wasFavorite)
       /\ toggleReq' = [toggleReq EXCEPT ![t] =
             [pc |-> "api", key |-> key, wasFavorite |-> wasFavorite,
              failed |-> FALSE]]
    /\ UNCHANGED serverFavorites
    /\ GuideUnchanged

\* the API call of t settles: the server applied it and the call resolves,
\* or the server did not and the call rejects and the catch block reverts
ToggleSettles(t) ==
    /\ toggleReq[t].pc = "api"
    /\ \E ok \in BOOLEAN :
          LET q == toggleReq[t] IN
          /\ serverFavorites' = IF ok THEN ApiApply(serverFavorites, q.key,
                                                     q.wasFavorite)
                                ELSE serverFavorites
          /\ favorites' = IF ok THEN favorites
                          ELSE Revert(favorites, q.key, q.wasFavorite)
          /\ toggleReq' = [toggleReq EXCEPT ![t].pc = "done", ![t].failed = ~ok]
    /\ GuideUnchanged

NextGuide ==
    \/ \E t \in Toggles, key \in FavoriteKeys : ToggleFavorite(t, key)
    \/ \E t \in Toggles : ToggleSettles(t)

\* clicks on the favorite buttons of the guide
SpecGuide == Init /\ [][NextGuide]_vars


-----------------------------------------------------------------------------
(* Properties *)

\* the callers whose execution of syncSource(s) holds the guard
Holders(s) == {c \in Callers : InFlight(exec[c][s])}

\* execution exec[c][s] settles in this step
Settles(c, s) == InFlight(exec[c][s]) /\ Settled(exec'[c][s])

\* C1: for every source id at most one execution of syncSource is between
\* acquiring the guard and releasing it, whatever the interleaving of calls
\* by syncAll passes and direct callers
C1_AtMostOneInFlight ==
    \A s \in AllIds : Cardinality(Holders(s)) <= 1

\* a pass syncs source 2 and a direct call for source 2 returned at the guard
C1_Witness ==
    /\ InFlight(exec["p1"][2])
    /\ exec["d1"][2].pc = "noop"

\* C2: a call of syncSource(s) made while another execution for s is in
\* flight starts no execution of its own (no lookup, no upstream call), its
\* promise resolves, and the step leaves the data tables, the sync_status
\* table and the active set as they were
C2_SecondCallIsNoop ==
    [][\A c \in Callers, s \in AllIds :
          (\E c2 \in Callers \ {c} : InFlight(exec[c2][s]))
             => /\ ~(~InFlight(exec[c][s]) /\ InFlight(exec'[c][s]))
                /\ (exec[c][s].pc # "noop" /\ exec'[c][s].pc = "noop")
                      => /\ UNCHANGED <<sync_status, categories, playlist_items,
                                        epg_programs, activeSyncs>>
                         /\ \A c2 \in Callers, s2 \in AllIds :
                               InFlight(exec'[c2][s2]) => exec'[c2][s2] = exec[c2][s2]
      ]_vars

\* a direct call syncs source 2, its status row says syncing, and the pass's
\* call for source 2 returned at the guard
C2_Witness ==
    /\ InFlight(exec["d1"][2])
    /\ sync_status[2].status = "syncing"
    /\ exec["p1"][2].pc = "noop"

\* C3: an execution of syncSource for an enabled, existing source settles
\* resolved, never rejected; with status success when its routine returned,
\* with status error and the thrown message when its routine threw
C3_StatusFollowsRoutine ==
    [][\A c \in Callers, s \in Sources :
          (Settles(c, s) /\ sourceTable[s].enabled)
             => /\ exec'[c][s].pc = "resolved"
                /\ exec'[c][s].routine = "returned"
                      => sync_status'[s].status = "success"
                /\ exec'[c][s].routine = "threw"
                      => sync_status'[s] = [status |-> "error",
                                            error |-> exec'[c][s].msg]
      ]_vars

\* the enabled sources of the list
EnabledSources == {s \in Sources : sourceTable[s].enabled}

\* C4: a pass that obtained the source list calls syncSource for every
\* enabled source and reaches its completion step, whatever the syncs of
\* the earlier sources did
C4_PassAttemptsAll ==
    \A p \in Passes :
        (pass[p].listed /\ pass[p].pc # "await")
           => /\ pass[p].pc = "completed"
              /\ pass[p].attempted = EnabledSources

\* C5: the active set holds only sources of executions in flight (an
\* execution that settled, resolved or rejected, has removed its source),
\* and every execution in flight eventually settles
C5_GuardReleased ==
    /\ [](\A s \in activeSyncs : Holders(s) # {})
    /\ \A c \in Callers :
          (\E s \in AllIds : InFlight(exec[c][s]))
             ~> (\A s \in AllIds : ~InFlight(exec[c][s]))

\* the routine of an enabled source threw, the write of the error status
\* threw too (the execution was rejected), and the source is not in the
\* active set
C5_Witness ==
    \E c \in Callers, s \in Sources :
        /\ sourceTable[s].enabled
        /\ exec[c][s].pc = "rejected"
        /\ exec[c][s].routine = "threw"
        /\ s \notin activeSyncs

\* C6 as claimed: at most one source id is in the active set at any time
C6_AtMostOneActiveSource == Cardinality(activeSyncs) <= 1

\* C6 as amended: every syncAll pass has at most one syncSource call in
\* flight at a time, and the active set holds at most one source id per
\* caller (pass or direct call) that has a call in flight
C6_OnePerCaller ==
    /\ \A p \in Passes : Cardinality({s \in AllIds : InFlight(exec[p][s])}) <= 1
    /\ Cardinality(activeSyncs)
          <= Cardinality({c \in Callers : \E s \in AllIds : InFlight(exec[c][s])})

\* the pass went on from source 1 to source 2 and syncs it alone
C6_Witness ==
    /\ pass["p1"].pc = "await"
    /\ pass["p1"].idx = 2
    /\ Settled(exec["p1"][1])
    /\ activeSyncs = {2}

\* C7: when a sync fails at a step of its routine and the failure is
\* recorded, every category, playlist item and programme of the source that
\* was stored when the sync started is stored afterwards, and the status of
\* the source is error
C7_FailedSyncKeepsData ==
    [][\A c \in Callers, s \in Sources :
          (Settles(c, s) /\ exec'[c][s].routine = "threw"
                         /\ exec'[c][s].pc = "resolved")
             => /\ snap[c][s].cats \subseteq Snapshot(s)'.cats
                /\ snap[c][s].items \subseteq Snapshot(s)'.items
                /\ \A k \in 1..Len(snap[c][s].progs) :
                      \E j \in 1..Len(epg_programs') :
                          epg_programs'[j] = snap[c][s].progs[k]
                /\ sync_status'[s].status = "error"
      ]_vars

\* C8: in every state (a read request can run in each) the stored
\* programmes of a source are those of its last complete ingest
C8_ProgramsOfOneFetch ==
    \A s \in Sources : ProgramsOf(epg_programs, s) = epgGood[s]

\* C9: a sync in which a write of a routine step threw settles with status
\* error and the storage error's message
C9_StorageErrorRecorded ==
    [][\A c \in Callers, s \in Sources :
          (Settles(c, s) /\ exec'[c][s].sf /\ exec'[c][s].pc = "resolved")
             => sync_status'[s] = [status |-> "error", error |-> StorageMsg]
      ]_vars

\* the steps of a routine that save items
ItemSteps(typ) == {k \in 1..NumSteps(typ) : StepKind(typ, k) = "item"}

\* the steps of a routine that save categories
CategorySteps(typ) == {k \in 1..NumSteps(typ) : StepKind(typ, k) = "cat"}

\* C10: after a sync whose routine returned and in which no write threw,
\* every upstream item is stored as a row of its own (source, id, type) with
\* its own name and icon, and every upstream category as a row of its own
\* (source, id, type) with its own name
C10_RowPerSourceIdType ==
    \A c \in Callers, s \in Sources :
        (exec[c][s].pc = "resolved" /\ exec[c][s].routine = "returned"
                                    /\ ~exec[c][s].sf)
           => LET typ == sourceTable[s].type IN
              /\ \A k \in ItemSteps(typ) :
                    \A n \in 1..Len(StepData(typ, k)) :
                       \E id \in DOMAIN playlist_items :
                          playlist_items[id] =
                             [ItemRow(s, StepType(typ, k), StepData(typ, k)[n])
                                 EXCEPT !.data = playlist_items[id].data]
              /\ \A k \in CategorySteps(typ) :
                    \A n \in 1..Len(StepData(typ, k)) :
                       \E id \in DOMAIN categories :
                          categories[id] =
                             [CategoryRow(s, StepType(typ, k), StepData(typ, k)[n])
                                 EXCEPT !.data = categories[id].data]

\* the rows of source b in the four tables
RowsOf(b) ==
    [cats   |-> {categories[id] :
                    id \in {x \in DOMAIN categories : categories[x].source_id = b}},
     items  |-> {playlist_items[id] :
                    id \in {x \in DOMAIN playlist_items :
                                playlist_items[x].source_id = b}},
     progs  |-> ProgramsOf(epg_programs, b),
     status |-> sync_status[b]]

\* C11: a step of a sync of source a (a write of a category, an item, an EPG
\* channel, the EPG delete-all, the programme insert, a status write) leaves
\* every category, playlist item, programme and status row of every other
\* source b as it was
C11_SyncLeavesOtherSources ==
    [][\A c \in Callers, a \in AllIds :
          (InFlight(exec[c][a]) /\ exec'[c][a] # exec[c][a])
             => \A b \in AllIds \ {a} : RowsOf(b)' = RowsOf(b)
      ]_vars

\* the m3u source 1 and the epg source 2 both synced with success, both
\* store an item with the same upstream id, and source 2 stores programmes
C11_Witness ==
    /\ sync_status[1].status = "success"
    /\ sync_status[2].status = "success"
    /\ ProgramsOf(epg_programs, 2) # << >>
    /\ \E x, y \in DOMAIN playlist_items :
          /\ playlist_items[x].source_id = 1
          /\ playlist_items[y].source_id = 2
          /\ playlist_items[x].item_id = playlist_items[y].item_id

\* the promoted fields of an upstream record of the given type
Promoted(type, u) ==
    [name        |-> Bind(Field(u, "name")),
     category_id |-> Bind(Field(u, "category_id")),
     icon        |-> Bind(IF type = "series" THEN Field(u, "cover")
                                             ELSE Field(u, "stream_icon")),
     container_extension |-> Bind(Field(u, "container_extension")),
     rating      |-> Bind(Field(u, "rating")),
     year        |-> Bind(IF type = "series" THEN Field(u, "releaseDate")
                                             ELSE Field(u, "year")),
     added       |-> Bind(IF type = "series" THEN Field(u, "last_modified")
                                             ELSE Field(u, "added")),
     stream_url  |-> Bind(Field(u, "stream_url"))]

\* the promoted fields as an entry of the read API serves them
Served(type, e) ==
    [name        |-> Bind(e.name),
     category_id |-> Bind(e.category_id),
     icon        |-> Bind(e.stream_icon),
     container_extension |-> Bind(e.container_extension),
     rating      |-> Bind(e.rating),
     year        |-> Bind(IF type = "series" THEN Field(e, "releaseDate")
                                             ELSE Field(e, "year")),
     added       |-> Bind(e.added),
     stream_url  |-> Bind(Field(e, "stream_url"))]

\* C12: when a sync of the later catalog revision ends with success, every
\* sync before it having ended with success too (no error was ever thrown),
\* the read API serves, for every item and category of the catalog, no promoted
\* field (name, category id, icon, container extension, rating, year, added,
\* stream URL; category name, parent id) with the value the earlier revision
\* had where the later revision changed it
C12_NoFieldOfEarlierSync ==
    [][\A c \in Callers, s \in Sources :
          (/\ Settles(c, s)
           /\ exec'[c][s].routine = "returned"
           /\ faults' = 0
           /\ catalog = 2)
             => LET typ == sourceTable[s].type IN
                /\ \A k \in ItemSteps(typ) :
                      \A n \in 1..Min(Len(StepDataAt(1, typ, k)),
                                      Len(StepDataAt(2, typ, k))) :
                         LET t   == StepType(typ, k)
                             old == Promoted(t, StepDataAt(1, typ, k)[n])
                             new == Promoted(t, StepDataAt(2, typ, k)[n])
                         IN  \A e \in GetStreamsFromDb(playlist_items', s, t, NULL) :
                                e.stream_id = ItemIdOf(t, StepDataAt(2, typ, k)[n])
                                   => \A f \in DOMAIN new :
                                         old[f] # new[f] => Served(t, e)[f] # old[f]
                /\ \A k \in CategorySteps(typ) :
                      \A n \in 1..Min(Len(StepDataAt(1, typ, k)),
                                      Len(StepDataAt(2, typ, k))) :
                         LET old == StepDataAt(1, typ, k)[n]
                             new == StepDataAt(2, typ, k)[n]
                         IN  \A e \in GetCategoriesFromDb(categories', s,
                                                          StepType(typ, k)) :
                                e.category_id = new.category_id
                                   => /\ old.category_name # new.category_name
                                         => e.category_name # old.category_name
                                      /\ old.parent_id # new.parent_id
                                         => e.parent_id # old.parent_id
      ]_vars

\* C13: when the six catalog steps of an xtream sync are done and no error
\* was ever thrown, the read API of the source serves, for every item that
\* saveStreams saved with type live, movie or series, an entry of that type
\* with the upstream id (stream_id, and series_id for a series), name and
\* category_id
C13_SavedItemsAreServed ==
    \A c \in Callers, s \in Sources :
        (exec[c][s].pc = "fetchEpg" /\ faults = 0)
           => LET typ == sourceTable[s].type IN
              \A k \in ItemSteps(typ) :
                 \A n \in 1..Len(StepData(typ, k)) :
                    LET t == StepType(typ, k)
                        u == StepData(typ, k)[n]
                    IN  \E e \in GetStreamsFromDb(playlist_items, s, t, NULL) :
                           /\ e.stream_id = ItemIdOf(t, u)
                           /\ t = "series" => e.series_id = u.series_id
                           /\ e.name = u.name
                           /\ e.category_id = u.category_id

\* the upstream records saved with the given type
SavedAs(typ, type) ==
    UNION {{StepData(typ, k)[n] : n \in 1..Len(StepData(typ, k))} :
              k \in {x \in ItemSteps(typ) : StepType(typ, x) = type}}

\* C14: every stored item whose data column holds an upstream record saved
\* with the item's own type has its columns mapped from that record by
\* type: live -> item_id from stream_id; movie -> item_id from stream_id,
\* rating, year and container_extension of the record; series -> item_id
\* from series_id, icon from cover, year from releaseDate, added_at from
\* last_modified
C14_FieldMappingByType ==
    \A id \in DOMAIN playlist_items :
        LET r == playlist_items[id]
            u == r.data
        IN  u \in SavedAs(sourceTable[r.source_id].type, r.type)
               => CASE r.type = "live"   -> r.item_id = u.stream_id
                    [] r.type = "movie"  -> /\ r.item_id = u.stream_id
                                            /\ r.rating = u.rating
                                            /\ r.year = u.year
                                            /\ r.container_extension
                                                  = u.container_extension
                    [] r.type = "series" -> /\ r.item_id = u.series_id
                                            /\ r.stream_icon = u.cover
                                            /\ r.year = u.releaseDate
                                            /\ r.added_at = u.last_modified
                    [] OTHER -> TRUE

\* the ids of the rows of source s in a table
StoredIds(tbl, s) == {id \in DOMAIN tbl : tbl[id].source_id = s}

\* the ids the first m records of the list of step k bind
IdsOfFirst(s, typ, k, m) ==
    LET list == StepData(typ, k) IN
    {CompositeId(s, IF StepKind(typ, k) = "cat"
                    THEN list[j].category_id
                    ELSE ItemIdOf(StepType(typ, k), list[j])) :
        j \in 1..m}

\* the rows of source s in the table step k writes
StoredOfStep(s, typ, k) ==
    IF StepKind(typ, k) = "cat" THEN StoredIds(categories, s)
    ELSE StoredIds(playlist_items, s)

\* C15: saving a list of n records with distinct ids: after every
\* transaction the offset is a multiple of 500 and the transaction was not
\* empty, so that the save ends after ceil(n/500) transactions; into an
\* empty store the first j transactions have written exactly the first
\* min(500 j, n) records of the list (every chunk holds at most 500 records,
\* in input order, every record in one chunk); after a sync without error
\* the store holds exactly n category rows and n item rows
C15_BatchesOfFiveHundred ==
    \A c \in Callers, s \in Sources :
        LET typ == sourceTable[s].type
            e   == exec[c][s]
        IN  /\ e.pc = "yield"
               => LET n == Len(StepData(typ, e.step)) IN
                  /\ e.i % BATCH_SIZE = 0
                  /\ e.i > 0
                  /\ e.i - BATCH_SIZE < n
                  /\ e.i >= n => e.i \div BATCH_SIZE
                                    = (n + BATCH_SIZE - 1) \div BATCH_SIZE
                  /\ IdsOfFirst(s, typ, e.step, Min(e.i, n))
                        \subseteq StoredOfStep(s, typ, e.step)
                  /\ (snap[c][s].cats = {} /\ snap[c][s].items = {})
                        => /\ StoredOfStep(s, typ, e.step)
                                 = IdsOfFirst(s, typ, e.step, Min(e.i, n))
                           /\ Cardinality(StoredOfStep(s, typ, e.step))
                                 = Min(e.i, n)
            /\ (e.pc = "resolved" /\ e.routine = "returned" /\ ~e.sf)
               => \A k \in 1..NumSteps(typ) :
                     LET n == Len(StepData(typ, k)) IN
                     /\ StoredOfStep(s, typ, k) = IdsOfFirst(s, typ, k, n)
                     /\ Cardinality(StoredOfStep(s, typ, k)) = n

\* a playlist of 1200 channels: the third transaction of saveStreams is done
\* (offset 1500) and 1200 item rows and 1200 category rows are stored
C15_Witness ==
    /\ playlistSize = 1200
    /\ exec["p1"][1].pc = "yield"
    /\ exec["p1"][1].step = 2
    /\ exec["p1"][1].i = 3 * BATCH_SIZE
    /\ Cardinality(StoredIds(playlist_items, 1)) = 1200
    /\ Cardinality(StoredIds(categories, 1)) = 1200

\* the times of the window queries: every programme of the feeds inside the
\* window, and the window starting inside each programme of the feeds
Nows == {0} \cup {WindowMs + t : t \in {150, 250, 350}}

\* C16: after an EPG ingest of a source that ran without error, whatever
\* was ingested for the source before (nothing, the same feed, another
\* feed), the window query of the source answers, at every time, what it
\* answers after one ingest of that feed into an empty table: no programme
\* twice, no programme of an earlier ingest
C16_IngestIdempotent ==
    [][\A c \in Callers, s \in Sources :
          (/\ exec[c][s].pc = "fetchEpg"
           /\ exec'[c][s].routine = "returned"
           /\ ~exec'[c][s].sf
           /\ faults' = faults)
             => \A now \in Nows :
                   EpgProgrammes(epg_programs', s, now)
                      = EpgProgrammes(epgGood'[s], s, now)
      ]_vars

\* source 2 was ingested by the pass and again by a direct call, both
\* without error, and stores the two programmes of the second feed, of
\* which the window starting at 250 holds both and that at 350 the later
C16_Witness ==
    /\ faults = 0
    /\ exec["p1"][2].pc = "resolved" /\ exec["p1"][2].routine = "returned"
    /\ exec["d1"][2].pc = "resolved" /\ exec["d1"][2].routine = "returned"
    /\ Len(EpgProgrammes(epg_programs, 2, WindowMs + 250)) = 2
    /\ Len(EpgProgrammes(epg_programs, 2, WindowMs + 350)) = 1

\* C17: no step of any sync (with success, failing, or of a catalog whose
\* lists became empty or shorter) removes a category row or a playlist item
\* row or changes the source, id or type of one: the stored keys only grow
C17_KeysOnlyGrow ==
    [][/\ \A id \in DOMAIN categories :
             /\ id \in DOMAIN categories'
             /\ categories'[id].source_id = categories[id].source_id
             /\ categories'[id].category_id = categories[id].category_id
             /\ categories'[id].type = categories[id].type
       /\ \A id \in DOMAIN playlist_items :
             /\ id \in DOMAIN playlist_items'
             /\ playlist_items'[id].source_id = playlist_items[id].source_id
             /\ playlist_items'[id].item_id = playlist_items[id].item_id
             /\ playlist_items'[id].type = playlist_items[id].type
      ]_vars

\* a sync of revision 2 of the catalog, which has no movie categories and
\* not the movie 11, ended with success, and the movie 11 is still stored
C17_Witness ==
    /\ catalog = 2
    /\ exec["p1"][1].pc = "resolved"
    /\ exec["p1"][1].routine = "returned"
    /\ sync_status[1].status = "success"
    /\ \A n \in 1..Len(XtreamVodStreams2) : XtreamVodStreams2[n].stream_id # "11"
    /\ \E id \in DOMAIN playlist_items :
          /\ playlist_items[id].item_id = "11"
          /\ playlist_items[id].data \in {XtreamVodStreams[n] :
                                             n \in 1..Len(XtreamVodStreams)}

\* C18: when the EPG step of an xtream sync fails upstream (the six catalog
\* steps are done) and the status write does not throw, the call resolves,
\* the routine returned, the status of the source is success, the step
\* writes no data table and the rows of the six catalog lists are stored
C18_EpgFailureSwallowed ==
    [][\A c \in Callers, s \in Sources :
          (/\ exec[c][s].pc = "fetchEpg"
           /\ sourceTable[s].type = "xtream"
           /\ exec'[c][s].msg = UpstreamMsg)
             => /\ exec'[c][s].pc = "resolved"
                /\ exec'[c][s].routine = "returned"
                /\ sync_status'[s] = [status |-> "success", error |-> NULL]
                /\ UNCHANGED <<categories, playlist_items, epg_programs>>
                /\ \A k \in 1..NumSteps("xtream") :
                      IdsOfFirst(s, "xtream", k, Len(StepData("xtream", k)))
                         \subseteq StoredOfStep(s, "xtream", k)
      ]_vars

\* the xtream source 1 synced with success although the fetch of its EPG
\* failed: no programme is stored, the series 20 is
C18_Witness ==
    /\ exec["p1"][1].pc = "resolved"
    /\ exec["p1"][1].msg = UpstreamMsg
    /\ exec["p1"][1].routine = "returned"
    /\ sourceTable[1].type = "xtream"
    /\ sync_status[1].status = "success"
    /\ epg_programs = << >>
    /\ CompositeId(1, "20") \in DOMAIN playlist_items

\* the distinct group titles of a parsed playlist
GroupTitles(parsed) ==
    {parsed.channels[k].groupTitle : k \in 1..Len(parsed.channels)} \ {""}

\* C19: after an M3U sync without error every channel of the parsed
\* playlist is stored as an item of type live of the source with its id and
\* name, no item of the source has another type, and for every distinct
\* group title exactly one category of the source has that title as
\* category_id; it is of type live and its name is the title
C19_M3uAllLive ==
    \A c \in Callers, s \in Sources :
        (/\ sourceTable[s].type = "m3u"
         /\ exec[c][s].pc = "resolved"
         /\ exec[c][s].routine = "returned"
         /\ ~exec[c][s].sf)
           => /\ \A k \in 1..Len(M3uAnswer.channels) :
                    \E id \in StoredIds(playlist_items, s) :
                        /\ playlist_items[id].item_id = M3uAnswer.channels[k].id
                        /\ playlist_items[id].name = M3uAnswer.channels[k].name
                        /\ playlist_items[id].type = "live"
              /\ \A id \in StoredIds(playlist_items, s) :
                    playlist_items[id].type = "live"
              /\ \A g \in GroupTitles(M3uAnswer) :
                    LET rows == {id \in StoredIds(categories, s) :
                                    categories[id].category_id = g}
                    IN  /\ Cardinality(rows) = 1
                        /\ \A id \in rows : /\ categories[id].type = "live"
                                             /\ categories[id].name = g

\* the m3u source 1 synced without error: its two channels and the group UK
\* are stored
C19_Witness ==
    /\ sourceTable[1].type = "m3u"
    /\ exec["p1"][1].pc = "resolved"
    /\ exec["p1"][1].routine = "returned"
    /\ ~exec["p1"][1].sf
    /\ Cardinality(StoredIds(playlist_items, 1)) = Len(M3uParsed.channels)
    /\ \E id \in StoredIds(categories, 1) : categories[id].category_id = "UK"

\* C20: once the client of a GET /stream request has disconnected, neither
\* the manifest fetch nor the upstream request of the relay opened for the
\* request is open
C20_NoUpstreamAfterDisconnect ==
    \A r \in Requests :
        streamReq[r].client = "closed"
           => /\ streamReq[r].fetch # "open"
              /\ streamReq[r].proxyReq # "open"

\* C21: when the upstream request of a raw relay has failed, the response
\* carries 502 if no header had been sent and keeps the upstream status
\* otherwise, and in both cases the client response has been ended
C21_ResponseEndsAfterUpstreamFailure ==
    \A r \in Requests :
        streamReq[r].proxyReq = "failed"
           => /\ streamReq[r].sent \in {"502", "upstream"}
              /\ streamReq[r].ended

\* a reference with a scheme: letters, then ://
HasScheme(line) ==
    \E i \in 2..Len(line) :
        /\ StartsWith(SubSeq(line, i, Len(line)), <<":", "/", "/">>)
        /\ \A j \in 1..(i - 1) : line[j] \notin {"/", "?", "#", ":"} \cup WhiteSpace

\* the target of a reference: itself when absolute, the base directory
\* followed by it when relative
TargetOf(base, line) == IF HasScheme(line) THEN line ELSE base \o line

\* C22: a rewritten manifest has the lines of the upstream manifest in
\* number and order; tags and empty lines are unchanged and every other
\* line is ProxyBase?url= followed by the percent-encoded target of the
\* line; seg1.ts below http://h/path/ becomes
\* ProxyBase?url=http%3A%2F%2Fh%2Fpath%2Fseg1.ts
C22_ManifestRewrittenLineByLine ==
    \A r \in Requests :
        streamReq[r].sent = "manifest" =>
            LET q    == streamReq[r]
                base == M3u8Base(q.url)
            IN  /\ Len(q.body) = Len(q.content)
                /\ \A i \in 1..Len(q.content) :
                      LET line == q.content[i]
                      IN  /\ (line = << >> \/ StartsWith(line, <<"#">>))
                                => q.body[i] = Str(line)
                          /\ (line # << >> /\ ~StartsWith(line, <<"#">>))
                                => q.body[i] = ProxyBase \o "?url=" \o
                                      EncodeURIComponent(TargetOf(base, line))
                          /\ (q.url = ManifestUrl /\ line = RelativeLine)
                                => q.body[i] = ProxyBase \o
                                      "?url=http%3A%2F%2Fh%2Fpath%2Fseg1.ts"

\* s.endsWith(suffix)
EndsWith(s, suffix) ==
    /\ Len(s) >= Len(suffix)
    /\ SubSeq(s, Len(s) - Len(suffix) + 1, Len(s)) = suffix

\* C23: a GET /stream request fetches a manifest, and answers with a
\* rewritten manifest, only if its url ends in .m3u8, and a request whose
\* url ends in .m3u8 fetches the manifest
C23_ManifestPathIffManifestExtension ==
    \A r \in Requests :
        LET q        == streamReq[r]
            manifest == EndsWith(q.url, <<".", "m", "3", "u", "8">>)
        IN  /\ ~manifest => q.fetch = "none" /\ q.sent # "manifest"
            /\ (manifest /\ q.pc # "idle") => q.fetch # "none"

\* C24: a GET /image response that relays an upstream response carries the
\* upstream status, Access-Control-Allow-Origin * and Cache-Control
\* public, max-age=86400, each once, and every other upstream header as
\* the upstream sent it; a url that does not start with http is answered
\* by a redirect to it and no upstream request is opened
C24_ImageCorsAndCacheHeaders ==
    \A r \in Requests :
        LET q == imageReq[r]
        IN  /\ q.sent = "upstream" =>
                  /\ q.status = q.up.status
                  /\ DOMAIN q.headers =
                        DOMAIN q.up.headers \cup {AllowOrigin, CacheControl}
                  /\ q.headers[AllowOrigin] = "*"
                  /\ q.headers[CacheControl] = "public, max-age=86400"
                  /\ \A h \in DOMAIN q.up.headers \ {AllowOrigin, CacheControl} :
                        q.headers[h] = q.up.headers[h]
            /\ (q.pc # "idle" /\ q.url # NoUrl /\ ~StartsWith(q.url, Http)) =>
                  /\ q.sent = "redirect"
                  /\ q.location = q.url
                  /\ q.upstream = "none"

\* an upstream response with its own CORS and cache headers was relayed,
\* and another request was redirected
C24_Witness ==
    /\ imageReq["r1"].sent = "upstream"
    /\ imageReq["r1"].up.status = 404
    /\ DOMAIN imageReq["r1"].up.headers = {AllowOrigin, CacheControl, ContentType}
    /\ imageReq["r1"].up.headers[AllowOrigin] = "http://other"
    /\ imageReq["r2"].sent = "redirect"

\* C25: the status of a read request tells the kind of its error: 500 when
\* the storage has thrown, the source lookup included, 502 when the
\* upstream call has thrown, 404 when the sourceId is that of no configured
\* source, 400 when a required parameter of a known source's request is
\* missing or invalid
C25_StatusTellsErrorKind ==
    \A r \in Requests :
        LET q == readReq[r]
        IN  q.pc = "done" =>
              /\ q.fault = "storage" => q.status = 500
              /\ q.fault = "upstream" => q.status = 502
              /\ (q.fault = "none" /\ ~HasSource(sourceTable, q.sourceId))
                    => q.status = 404
              /\ (/\ q.fault = "none"
                  /\ HasSource(sourceTable, q.sourceId)
                  /\ \/ q.route \in InfoRoutes /\ q.detail = ""
                     \/ /\ q.route = "stream_url"
                        /\ GetById(sourceTable, q.sourceId).type = "xtream"
                        /\ q.type \notin {"live", "movie", "series"})
                    => q.status = 400

\* the request of r is one of a cached route whose source lookup finds the
\* source the route serves
Cacheable(q) ==
    /\ q.route \in {"auth"} \cup InfoRoutes
    /\ HasSource(sourceTable, q.sourceId)
    /\ q.route = "auth" => GetById(sourceTable, q.sourceId).type = "xtream"
    /\ q.route \in InfoRoutes => q.detail # ""

\* the cache key of a cacheable request
KeyOf(q) == CacheKey(ParseInt(q.sourceId), q.route, q.detail)

\* C26: a request whose key has a cached entry that has not expired is
\* answered with the cached value and makes no upstream call; a request
\* whose key has an expired entry calls upstream
C26_CachedAnswerNoUpstream ==
    [][\A r \in Requests :
          LET q == readReq[r]
          IN  (/\ q.pc = "lookup"
               /\ readReq'[r].pc # "lookup"
               /\ readReq'[r].fault = "none"
               /\ Cacheable(q)
               /\ KeyOf(q) \in DOMAIN cache)
                 => IF clock < cache[KeyOf(q)].expires
                    THEN /\ readReq'[r].pc = "done"
                         /\ readReq'[r].status = 200
                         /\ readReq'[r].body = cache[KeyOf(q)].value
                         /\ ~readReq'[r].called
                    ELSE /\ readReq'[r].pc = "upstream"
                         /\ readReq'[r].called]_vars

\* C27: a DELETE /cache/:sourceId leaves no cached entry of that source and
\* every entry of another source as it was, and the next request for a key
\* of that source calls upstream
C27_ClearedSourceAsksUpstream ==
    [][/\ (readReq' = readReq /\ cache' # cache)
             => \E param \in SourceParams :
                   /\ DOMAIN cache' \cap KeysOfSource(ParseInt(param)) = {}
                   /\ DOMAIN cache' = DOMAIN cache \ KeysOfSource(ParseInt(param))
                   /\ \A k \in DOMAIN cache' : cache'[k] = cache[k]
       /\ \A r \in Requests :
             LET q == readReq[r]
             IN  (/\ q.pc = "lookup"
                  /\ readReq'[r].pc # "lookup"
                  /\ readReq'[r].fault = "none"
                  /\ Cacheable(q)
                  /\ KeyOf(q) \in cleared)
                    => /\ readReq'[r].pc = "upstream"
                       /\ readReq'[r].called]_vars

\* the times of a request: Nows, and a time whose window ends at 250
RequestTimes == Nows \cup {250 - WindowMs}

\* the stored programmes of source s that overlap the window around now
InWindow(s, now) ==
    {i \in 1..Len(epg_programs) :
        /\ epg_programs[i].source_id = s
        /\ epg_programs[i].end_time > now - WindowMs
        /\ epg_programs[i].start_time < now + WindowMs}

\* C28: at every time, the programmes GET /epg/:sourceId answers for a
\* source are exactly its stored programmes that end after now-24h and
\* start before now+24h, one entry per stored programme and in the stored
\* order, start and stop being the timestamps of the stored milliseconds
C28_EpgWindow ==
    \A s \in AllIds, now \in RequestTimes :
        LET out == EpgProgrammes(epg_programs, s, now)
            idx == InWindow(s, now)
        IN  /\ Len(out) = Cardinality(idx)
            /\ \A i \in idx :
                  LET k == Cardinality({j \in idx : j <= i})
                  IN  /\ out[k].channelId = epg_programs[i].channel_id
                      /\ out[k].title = epg_programs[i].title
                      /\ out[k].start = ToISOString(epg_programs[i].start_time)
                      /\ out[k].stop = ToISOString(epg_programs[i].end_time)

\* source 2 stores the programmes 200-300 and 300-400: the window that
\* starts at 250 holds both, the first across its edge; the window that
\* starts at 350 holds the second alone; the window that ends at 250 holds
\* the first alone; a request for source 1 is answered none of them
C28_Witness ==
    /\ Len(epg_programs) = 2
    /\ \A i \in 1..2 : epg_programs[i].source_id = 2
    /\ epg_programs[1].start_time = 200 /\ epg_programs[2].end_time = 400
    /\ Len(EpgProgrammes(epg_programs, 2, WindowMs + 250)) = 2
    /\ Len(EpgProgrammes(epg_programs, 2, WindowMs + 350)) = 1
    /\ Len(EpgProgrammes(epg_programs, 2, 250 - WindowMs)) = 1
    /\ EpgProgrammes(epg_programs, 2, 250 - WindowMs)[1].start = "T200"
    /\ Len(EpgProgrammes(epg_programs, 1, WindowMs + 250)) = 0

\* the ids the whole list of step k binds
IdsOfStep(s, typ, k) == IdsOfFirst(s, typ, k, Len(StepData(typ, k)))

\* tables cats and items hold every list of the steps before k
StepsStoredIn(cats, items, s, typ, k) ==
    \A j \in 1..(k - 1) :
        IdsOfStep(s, typ, j)
           \subseteq StoredIds(IF StepKind(typ, j) = "cat" THEN cats ELSE items, s)

\* every list of the steps before k is stored
StepsStoredBefore(s, typ, k) ==
    StepsStoredIn(categories, playlist_items, s, typ, k)

\* the rows a transition inserted or rewrote in a table
RowsWritten(old, new) ==
    {id \in DOMAIN new : id \notin DOMAIN old \/ new[id] # old[id]}

\* C29: in a sync of an xtream source the upstream calls are awaited in the
\* order live categories, live streams, VOD categories, VOD streams, series
\* categories, series, EPG: the call of step k starts from step k-1 (the
\* first from the source lookup) when every list before k is stored, the
\* EPG call starts from step 6 when all six lists are stored; a run of the
\* routine writes only the rows of the step whose call it awaited, into the
\* table of that step; when a catalog step throws, the run writes nothing,
\* the sync is over and the guard is released, so that no later step is
\* fetched or stored
C29_XtreamStepsInOrder ==
    [][\A c \in Callers, s \in Sources :
          LET typ == sourceTable[s].type
              e   == exec[c][s]
              f   == exec'[c][s]
          IN  (typ = "xtream" /\ InFlight(e) /\ f # e)
              => /\ f.pc = "fetch"
                    => /\ f.step = (IF e.pc = "getById" THEN 1 ELSE e.step + 1)
                       /\ e.pc \in {"getById", "fetch", "yield"}
                       /\ f.step <= NumSteps(typ)
                       /\ StepsStoredIn(categories', playlist_items', s, typ, f.step)
                 /\ f.pc = "yield"
                    => /\ e.pc \in {"fetch", "yield"}
                       /\ f.step = e.step
                 /\ f.pc = "fetchEpg"
                    => /\ e.pc \in {"fetch", "yield"}
                       /\ e.step = NumSteps(typ)
                       /\ StepsStoredIn(categories', playlist_items', s, typ,
                                        NumSteps(typ) + 1)
                 /\ e.pc = "fetchEpg" => Settled(f)
                 /\ e.pc = "getById"
                    => categories' = categories /\ playlist_items' = playlist_items
                 /\ e.pc \in {"fetch", "yield"}
                    => /\ RowsWritten(categories, categories')
                             \subseteq (IF StepKind(typ, e.step) = "cat"
                                        THEN IdsOfStep(s, typ, e.step) ELSE {})
                       /\ RowsWritten(playlist_items, playlist_items')
                             \subseteq (IF StepKind(typ, e.step) = "item"
                                        THEN IdsOfStep(s, typ, e.step) ELSE {})
                 /\ (e.pc \in {"fetch", "yield"} /\ f.routine = "threw")
                    => /\ Settled(f)
                       /\ s \notin activeSyncs'
                       /\ categories' = categories
                       /\ playlist_items' = playlist_items]_vars

\* the sync of the xtream source threw at the VOD categories or the VOD
\* streams: the live categories and the live streams are stored, no series
\* row is, and the sync is over
C29_Witness ==
    /\ sourceTable[1].type = "xtream"
    /\ exec["p1"][1].pc = "resolved"
    /\ exec["p1"][1].routine = "threw"
    /\ StepsStoredBefore(1, "xtream", 3)
    /\ IdsOfStep(1, "xtream", 2) # {}
    /\ \A id \in StoredIds(categories, 1) : categories[id].type # "series"
    /\ \A id \in StoredIds(playlist_items, 1) : playlist_items[id].type # "series"
    /\ ~ StepsStoredBefore(1, "xtream", 6)

\* the batch a run of the routine resumed at e passes to insertBatch first:
\* its step and offset (step 0: the run ends or awaits a call before any)
Attempted(e, typ) ==
    IF e.pc = "fetch" THEN [step |-> e.step, i |-> 0]
    ELSE IF e.pc = "yield" /\ e.i < Len(StepData(typ, e.step))
    THEN [step |-> e.step, i |-> e.i]
    ELSE IF /\ e.pc = "yield"
            /\ e.step < NumSteps(typ)
            /\ ~StepFetches(typ, e.step + 1)
            /\ Len(StepData(typ, e.step + 1)) > 0
    THEN [step |-> e.step + 1, i |-> 0]
    ELSE [step |-> 0, i |-> 0]

\* the ids the batch of step k at offset i binds
ChunkIds(s, typ, k, i) ==
    IdsOfFirst(s, typ, k, Min(i + BATCH_SIZE, Len(StepData(typ, k))))
       \ IdsOfFirst(s, typ, k, i)

\* the rows of source s in the table of step k, of tables cats and items
StoredOfStepIn(cats, items, s, typ, k) ==
    StoredIds(IF StepKind(typ, k) = "cat" THEN cats ELSE items, s)

\* the stored rows of every step of source s are those of a whole number of
\* leading batches of its list
WholeChunks(s) ==
    LET typ == sourceTable[s].type IN
    \A k \in 1..NumSteps(typ) :
        LET n == Len(StepData(typ, k)) IN
        \E j \in 0..((n + BATCH_SIZE - 1) \div BATCH_SIZE) :
            StoredOfStep(s, typ, k) = IdsOfFirst(s, typ, k, Min(j * BATCH_SIZE, n))

\* C30: a batch of saveCategories / saveStreams is stored whole or not at
\* all, and a save is suspended between two batches: in every state another
\* request can observe, the stored rows of a list are exactly those of a
\* whole number of its leading batches; a run of the routine stores at most
\* one batch, all of its records, and then awaits setImmediate; when the
\* transaction of a batch throws, no row of any table changes, the records
\* of the batch that were not stored before are not stored, and the rows of
\* the earlier batches of the list stay stored
C30_ChunksAreAtomic ==
    /\ [](\A s \in Sources : WholeChunks(s))
    /\ [][\A c \in Callers, s \in Sources :
             LET typ == sourceTable[s].type
                 e   == exec[c][s]
                 f   == exec'[c][s]
                 a   == Attempted(e, typ)
                 new == StoredOfStepIn(categories', playlist_items', s, typ, a.step)
             IN  (e.pc \in {"fetch", "yield"} /\ f # e /\ a.step > 0)
                => /\ f.pc = "yield"
                      => /\ f.step = a.step
                         /\ f.i = a.i + BATCH_SIZE
                         /\ ChunkIds(s, typ, a.step, a.i) # {}
                         /\ ChunkIds(s, typ, a.step, a.i) \subseteq new
                         /\ new \ StoredOfStep(s, typ, a.step)
                               \subseteq ChunkIds(s, typ, a.step, a.i)
                         /\ IF StepKind(typ, a.step) = "cat"
                            THEN playlist_items' = playlist_items
                            ELSE categories' = categories
                   /\ f.pc # "yield"
                      => /\ Settled(f)
                         /\ f.routine = "threw"
                         /\ categories' = categories
                         /\ playlist_items' = playlist_items
                         /\ IdsOfFirst(s, typ, a.step, a.i) \subseteq new
                         /\ (ChunkIds(s, typ, a.step, a.i)
                                \ StoredOfStep(s, typ, a.step)) \cap new = {}]_vars

\* a playlist of 1200 channels: the second transaction of saveStreams threw
\* after the first was committed; the 500 channels of the first batch and
\* all 1200 groups are stored, none of the second batch is
C30_Witness ==
    /\ playlistSize = 1200
    /\ exec["p1"][1].pc = "resolved"
    /\ exec["p1"][1].routine = "threw"
    /\ exec["p1"][1].sf
    /\ StoredIds(playlist_items, 1) = IdsOfFirst(1, "m3u", 2, BATCH_SIZE)
    /\ ChunkIds(1, "m3u", 2, BATCH_SIZE) \cap StoredIds(playlist_items, 1) = {}
    /\ Cardinality(StoredIds(categories, 1)) = 1200

C32_ImageFollowsRelayRules ==
    \A r \in Requests :
        LET q == imageReq[r]
        IN  /\ q.client = "closed" => q.upstream # "open"
            /\ (q.upstream = "failed" /\ q.sent # "upstream") => q.status = 502

\* C33: the source of an execution in flight is in the active set; a source
\* leaves the active set only in the step in which the execution in flight
\* for it settles, resolved or rejected; a call that returns at the guard
\* leaves the active set as it was
C33_OnlyTheHolderReleases ==
    /\ [](\A c \in Callers, s \in AllIds :
             InFlight(exec[c][s]) => s \in activeSyncs)
    /\ [][\A s \in AllIds :
             /\ (s \in activeSyncs /\ s \notin activeSyncs')
                => \E c \in Callers :
                      /\ InFlight(exec[c][s])
                      /\ exec'[c][s].pc \in {"resolved", "rejected"}
             /\ \A c \in Callers :
                   (exec'[c][s].pc = "noop" /\ exec'[c][s] # exec[c][s])
                      => /\ activeSyncs' = activeSyncs
                         /\ s \in activeSyncs'
                         /\ \E c2 \in Callers \ {c} :
                               /\ InFlight(exec[c2][s])
                               /\ exec'[c2][s] = exec[c2][s]]_vars

\* the routine of the pass's execution for source 2 is running, a direct
\* call for source 2 has returned at the guard, and source 2 is still in
\* the active set
C33_Witness ==
    /\ exec["d1"][2].pc = "noop"
    /\ exec["p1"][2].routine = "running"
    /\ InFlight(exec["p1"][2])
    /\ 2 \in activeSyncs

\* C34: the sync_status row of a source that is not in the active set, if
\* there is one, has status success or error
C34_SyncingNeverLeftBehind ==
    \A s \in AllIds :
        s \notin activeSyncs
           => sync_status[s].status \in {"none", "success", "error"}

LastOfItsId(ids, j) == \A k \in (j + 1)..Len(ids) : ids[k] # ids[j]

\* C37: a call of saveStreams or saveCategories, repeated with the same
\* source, type and list, leaves the table as the first call left it; and
\* an id the table did not hold is stored once, with the fields the
\* statement binds for the last record of the list that has the id
C37_SavesAreIdempotent ==
    [][\A s \in SaveSources, type \in SaveTypes :
          /\ \A items \in ListsOf(SavedItems) :
                playlist_items' = InsertItemBatch(playlist_items, s, type, items)
                   => /\ InsertItemBatch(playlist_items', s, type, items)
                            = playlist_items'
                      /\ \A j \in 1..Len(items) :
                            LET ids == [k \in 1..Len(items) |->
                                           CompositeId(s, ItemIdOf(type, items[k]))]
                            IN  (LastOfItsId(ids, j)
                                   /\ ids[j] \notin DOMAIN playlist_items)
                                  => playlist_items'[ids[j]]
                                        = ItemRow(s, type, items[j])
          /\ \A cats \in ListsOf(SavedCategories) :
                categories' = InsertCategoryBatch(categories, s, type, cats)
                   => /\ InsertCategoryBatch(categories', s, type, cats)
                            = categories'
                      /\ \A j \in 1..Len(cats) :
                            LET ids == [k \in 1..Len(cats) |->
                                           CompositeId(s, cats[k].category_id)]
                            IN  (LastOfItsId(ids, j)
                                   /\ ids[j] \notin DOMAIN categories)
                                  => categories'[ids[j]]
                                        = CategoryRow(s, type, cats[j])]_vars

\* C38: a toggle changes the membership of its key at once; when its API
\* call fails the membership of the key is again what it was before the
\* toggle; and whenever no API call is pending, a key is in the local
\* favorites exactly when the server holds it
C38_FavoritesFollowServer ==
    /\ [][\A t \in Toggles :
             LET q == toggleReq[t]
                 n == toggleReq'[t]
             IN  /\ (q.pc = "idle" /\ n.pc = "api")
                    => /\ n.wasFavorite = (n.key \in favorites)
                       /\ (n.key \in favorites') = ~n.wasFavorite
                 /\ (q.pc = "api" /\ n.pc = "done" /\ n.failed)
                    => (q.key \in favorites') = q.wasFavorite]_vars
    /\ []((\A t \in Toggles : toggleReq[t].pc # "api")
             => favorites = serverFavorites)

====
